---- MODULE Spec2Model ----
(***************************************************************************)
(* Verification model of the nanolang toolchain: the type environment      *)
(* (unification over mutable type-variable cells, scopes and usages,       *)
(* exhaustiveness, alternative patterns), the Air scope algebra and the    *)
(* Flat ZigZag codec.  Every subsystem has its own variables and its own   *)
(* specification; the variables of the other subsystems stay unchanged.    *)
(***************************************************************************)
EXTENDS Integers, Sequences, FiniteSets, TLC

VARIABLES
    heap,       \* tipo.rs: the Arc<RefCell<TypeVar>> cells, cell index -> TypeVar
    ops,        \* number of environment calls made so far
    last,       \* the call that has just returned (op, arguments, result, heap before)
    clauses,    \* env.rs check_exhaustiveness: the clause patterns of a `when`
    subject,    \* env.rs check_exhaustiveness: value_typ, the type of the subject
    verdict,    \* the Result of check_exhaustiveness, once it has returned
    overflow_checks, \* zigzag.rs: whether the build traps on arithmetic overflow
    zin,        \* zigzag.rs: the value handed to the codec, its width and direction
    zmid,       \* zigzag.rs: the result of the first conversion
    zout,       \* zigzag.rs: the result of converting back
    stacks,     \* stack.rs: the AirStacks under construction (scope, air), by name
    id_gen,     \* lib.rs: the counter of the shared IdGenerator
    merged,     \* stack.rs: the last merge_child call: parent and child before, parent after
    assoc,      \* stack.rs: the two ways of merging three stacks, on copies of them
    scope,      \* env.rs: Environment::scope, name -> ValueConstructor
    entity_usages, \* env.rs: Environment::entity_usages, a stack of usage maps
    warnings,   \* env.rs: Environment::warnings, in the order pushed
    resets,     \* env.rs: the ScopeResetData held by the callers of open_new_scope
    opened,     \* the scope and the usage depth at each open_new_scope not yet closed
    sops,       \* number of scope calls made so far
    slast,      \* the scope call that has just returned
    mode,       \* pattern.rs: PatternTyper::mode
    initial_pattern_vars, \* pattern.rs: PatternTyper::initial_pattern_vars
    pstage,     \* where the caller of the typer is: new, initial, failed
    palternatives, \* number of alternative patterns handed to the typer
    psubject,   \* the type of the subject the patterns are typed against
    pinitial,   \* the initial pattern of the clause
    plast,      \* the typer call that has just returned
    tx_redeemer, \* tx.rs: tx.transaction_witness_set.redeemer, an Option of the redeemers
    initial_budget, \* tx.rs: the initial_budget argument, an Option
    run_phase_one, \* tx.rs: the run_phase_one argument
    hpc, \* tx.rs: where eval_phase_two is: call, loop, eval, return
    hk, \* tx.rs: the position of the loop in the redeemers
    remaining_budget, \* tx.rs: remaining_budget
    collected_redeemers, \* tx.rs: collected_redeemers
    phase_one, \* the outcome of eval_phase_one: skipped, ok, failed
    hlog, \* the calls of with_redeemer and eval_redeemer so far, with the budget handed over
    hresult, \* tx.rs: the Result of eval_phase_two, once it has returned
    params_bytes, \* tx.rs apply_params_to_script: params_bytes, by what they decode to
    plutus_script_bytes, \* tx.rs apply_params_to_script: plutus_script_bytes, by what they decode to
    encoder_fails, \* whether Program::to_cbor fails on this call
    aresult, \* tx.rs: the outcome of apply_params_to_script, once it has ended
    encoder, \* encoder.rs: the Encoder (buffer, used_bits, current_byte)
    eops, \* number of encoder calls made so far
    elast, \* the encoder call that has just returned, with the encoder before it
    type_vars, \* tipo.rs: the Arc<RefCell<TypeVar>> cells of the types handed to generalise
    uid_gen, \* env.rs: Environment::id_gen, the next id it hands out
    gstage, \* where the caller is: new, generalised, instantiated
    glast, \* the generalise and instantiate calls made: arguments, cells before, results
    definitions, \* env.rs register_types: the definitions of the module, in order
    names, \* env.rs register_types: names, type name -> location
    module_types, \* env.rs: Environment::module_types, type name -> TypeConstructor
    rstage, \* where the caller of register_types is: new, done
    registered, \* the outcome of register_types: the Result and the failures of its last pass
    eval_term, \* ast.rs: the term of the Program evaluated
    eval_budget, \* ast.rs Program::eval: initial_budget
    machine_costs, \* the cost model of the machine: the cost of a step and of a builtin
    machine, \* ast.rs Program::eval: the Machine (state, term, env, frames, ex_budget)
    msteps, \* number of steps the machine has taken
    eval_result, \* ast.rs: the EvalResult of Program::eval
    field_map, \* fields.rs: the FieldMap (arity, fields: label -> index)
    call_args, \* fields.rs reorder: the argument vector as it was handed in
    reordering, \* fields.rs reorder: args, i, seen_labels, unknown_labels, and the result
    machine_value, \* the value whose memory is measured
    big_n, \* the integer to convert
    vstage, \* new, measured, converted, aborted, back or done
    ex_mem, \* the result of to_ex_mem
    pallas_n, \* the result of to_pallas_bigint
    round_n, \* the result of from_pallas_bigint
    pipeline, \* the untyped expressions of the pipeline
    pipe_typer, \* the PipeTyper
    pipe_scope, \* the type of PIPE_VARIABLE in the scope, if any
    pipe_result, \* the result of PipeTyper::infer
    generator_id, \* lib.rs: the AtomicU64 that the clones of one IdGenerator share
    handles, \* the callers that hold a clone
    calling, \* each caller's position in next() and the id it fetched
    issued, \* the fetch_add operations in their atomic order
    received, \* the ids each caller got back, in order
    usage_stack, \* env.rs: entity_usages during one increment_usage
    usage_before, \* entity_usages when increment_usage was called
    incrementing \* the position of increment_usage and its local name

uvars == <<heap, ops, last>>

evars == <<clauses, subject, verdict>>

zvars == <<overflow_checks, zin, zmid, zout>>

avars == <<stacks, id_gen, merged, assoc>>

svars == <<scope, entity_usages, warnings, resets, opened, sops, slast>>

pvars == <<mode, initial_pattern_vars, pstage, palternatives, psubject, pinitial, plast>>

hvars == <<tx_redeemer, initial_budget, run_phase_one, hpc, hk, remaining_budget, collected_redeemers, phase_one, hlog, hresult>>

apvars == <<params_bytes, plutus_script_bytes, encoder_fails, aresult>>

fvars == <<encoder, eops, elast>>

gvars == <<type_vars, uid_gen, gstage, glast>>

rvars == <<definitions, names, module_types, rstage, registered>>

mvars == <<eval_term, eval_budget, machine_costs, machine, msteps, eval_result>>

flvars == <<field_map, call_args, reordering>>

vvars == <<machine_value, big_n, vstage, ex_mem, pallas_n, round_n>>

ppvars == <<pipeline, pipe_typer, pipe_scope, pipe_result>>

idvars == <<generator_id, handles, calling, issued, received>>

cvars == <<usage_stack, usage_before, incrementing>>

vars == <<uvars, evars, zvars, avars, svars, pvars, hvars, apvars, fvars, gvars, rvars, mvars, flvars, vvars, ppvars, idvars, cvars>>

\* What a step of one subsystem leaves alone: the state of the others.
UnifyFrame == UNCHANGED <<evars, zvars, avars, svars, pvars, hvars, apvars, fvars, gvars, rvars, mvars, flvars, vvars, ppvars, idvars, cvars>>

ExhFrame == UNCHANGED <<uvars, zvars, avars, svars, pvars, hvars, apvars, fvars, gvars, rvars, mvars, flvars, vvars, ppvars, idvars, cvars>>

ZigFrame == UNCHANGED <<uvars, evars, avars, svars, pvars, hvars, apvars, fvars, gvars, rvars, mvars, flvars, vvars, ppvars, idvars, cvars>>

AirFrame == UNCHANGED <<uvars, evars, zvars, svars, pvars, hvars, apvars, fvars, gvars, rvars, mvars, flvars, vvars, ppvars, idvars, cvars>>

ScopeFrame == UNCHANGED <<uvars, evars, zvars, avars, pvars, hvars, apvars, fvars, gvars, rvars, mvars, flvars, vvars, ppvars, idvars, cvars>>

\* The typer works on the cells, the scope, the usages and the warnings of its
\* environment.
PatternFrame ==
    UNCHANGED <<evars, zvars, avars, ops, last, resets, opened, sops, slast, hvars, apvars, fvars, gvars, rvars, mvars, flvars, vvars, ppvars, idvars, cvars>>

TxFrame == UNCHANGED <<uvars, evars, zvars, avars, svars, pvars, apvars, fvars, gvars, rvars, mvars, flvars, vvars, ppvars, idvars, cvars>>

ApplyFrame == UNCHANGED <<uvars, evars, zvars, avars, svars, pvars, hvars, fvars, gvars, rvars, mvars, flvars, vvars, ppvars, idvars, cvars>>

EncoderFrame == UNCHANGED <<uvars, evars, zvars, avars, svars, pvars, hvars, apvars, gvars, rvars, mvars, flvars, vvars, ppvars, idvars, cvars>>

GeneraliseFrame == UNCHANGED <<uvars, evars, zvars, avars, svars, pvars, hvars, apvars, fvars, rvars, mvars, flvars, vvars, ppvars, idvars, cvars>>

RegisterFrame == UNCHANGED <<uvars, evars, zvars, avars, svars, pvars, hvars, apvars, fvars, gvars, mvars, flvars, vvars, ppvars, idvars, cvars>>

MachineFrame == UNCHANGED <<uvars, evars, zvars, avars, svars, pvars, hvars, apvars, fvars, gvars, rvars, flvars, vvars, ppvars, idvars, cvars>>

FieldsFrame == UNCHANGED <<uvars, evars, zvars, avars, svars, pvars, hvars, apvars, fvars, gvars, rvars, mvars, vvars, ppvars, idvars, cvars>>

ValueFrame == UNCHANGED <<uvars, evars, zvars, avars, svars, pvars, hvars, apvars, fvars, gvars, rvars, mvars, flvars, ppvars, idvars, cvars>>

PipeFrame == UNCHANGED <<uvars, evars, zvars, avars, svars, pvars, hvars, apvars, fvars, gvars, rvars, mvars, flvars, vvars, idvars, cvars>>

IdGeneratorFrame == UNCHANGED <<uvars, evars, zvars, avars, svars, pvars, hvars, apvars, fvars, gvars, rvars, mvars, flvars, vvars, ppvars, cvars>>

ChainFrame == UNCHANGED <<uvars, evars, zvars, avars, svars, pvars, hvars, apvars, fvars, gvars, rvars, mvars, flvars, vvars, ppvars, idvars>>

(***************************************************************************)
(* Bounds of the unification model.                                        *)
(***************************************************************************)
InitCells == 2
MaxCells == 3
MaxOps == 2

(***************************************************************************)
(* tipo.rs: Type and TypeVar.  Every App of the model is public and of the *)
(* prelude module "", so `n` stands for (public, module, name).            *)
(***************************************************************************)
TApp(name, args) == [k |-> "App", n |-> name, a |-> args, r |-> <<>>, c |-> 0]

TFn(args, ret) == [k |-> "Fn", n |-> "", a |-> args, r |-> <<ret>>, c |-> 0]

TVar(cell) == [k |-> "Var", n |-> "", a |-> <<>>, r |-> <<>>, c |-> cell]

TTuple(elems) == [k |-> "Tuple", n |-> "", a |-> elems, r |-> <<>>, c |-> 0]

Unbound(id) == [k |-> "Unbound", id |-> id, t |-> <<>>]

Link(tipo) == [k |-> "Link", id |-> 0, t |-> <<tipo>>]

Generic(id) == [k |-> "Generic", id |-> id, t |-> <<>>]

int == TApp("Int", <<>>)

data == TApp("Data", <<>>)

string == TApp("String", <<>>)

list(t) == TApp("List", <<t>>)

(***************************************************************************)
(* #[derive(PartialEq)] on Type and TypeVar: structural equality; two Var  *)
(* nodes are equal when the contents of their cells are equal.             *)
(***************************************************************************)
RECURSIVE TypeEq(_, _, _)
RECURSIVE TypeSeqEq(_, _, _)
RECURSIVE TypeVarEq(_, _, _)

TypeEq(h, t1, t2) ==
    /\ t1.k = t2.k
    /\ CASE t1.k = "App" -> t1.n = t2.n /\ TypeSeqEq(h, t1.a, t2.a)
         [] t1.k = "Fn" -> TypeSeqEq(h, t1.a, t2.a) /\ TypeEq(h, t1.r[1], t2.r[1])
         [] t1.k = "Tuple" -> TypeSeqEq(h, t1.a, t2.a)
         [] t1.k = "Var" -> TypeVarEq(h, h[t1.c], h[t2.c])

TypeSeqEq(h, s1, s2) ==
    /\ Len(s1) = Len(s2)
    /\ \A i \in 1..Len(s1) : TypeEq(h, s1[i], s2[i])

TypeVarEq(h, v1, v2) ==
    /\ v1.k = v2.k
    /\ IF v1.k = "Link" THEN TypeEq(h, v1.t[1], v2.t[1]) ELSE v1.id = v2.id

(***************************************************************************)
(* tipo.rs: the predicates unify consults before casting.                  *)
(***************************************************************************)
is_unbound(h, t) == t.k = "Var" /\ h[t.c].k = "Unbound"

is_function(t) == t.k = "Fn"

RECURSIVE is_data(_, _)
is_data(h, t) ==
    CASE t.k = "App" -> t.n = "Data"
      [] t.k = "Var" -> h[t.c].k = "Link" /\ is_data(h, h[t.c].t[1])
      [] OTHER -> FALSE

RECURSIVE is_string(_, _)
is_string(h, t) ==
    CASE t.k = "App" -> t.n = "String"
      [] t.k = "Var" -> h[t.c].k = "Link" /\ is_string(h, h[t.c].t[1])
      [] OTHER -> FALSE

RECURSIVE is_generic(_, _)
is_generic(h, t) ==
    CASE t.k = "Var" ->
            \/ h[t.c].k = "Generic"
            \/ h[t.c].k = "Link" /\ is_generic(h, h[t.c].t[1])
      [] t.k = "Fn" ->
            \/ \E i \in 1..Len(t.a) : is_generic(h, t.a[i])
            \/ is_generic(h, t.r[1])
      [] OTHER -> \E i \in 1..Len(t.a) : is_generic(h, t.a[i])

(***************************************************************************)
(* env.rs: unify_unbound_type, the occurs check.  TRUE is Ok(()), FALSE is *)
(* Err(RecursiveType).  The cell write of the Unbound arm stores the value *)
(* the cell already holds, so the heap is the same afterwards.             *)
(***************************************************************************)
RECURSIVE unify_unbound_type(_, _, _)

\* The occurs check without its Fn arm.
unify_unbound_type_SkipsFn(h, tipo, own_id) ==
    CASE tipo.k = "Var" ->
            (CASE h[tipo.c].k = "Link" -> unify_unbound_type(h, h[tipo.c].t[1], own_id)
               [] h[tipo.c].k = "Unbound" -> h[tipo.c].id # own_id
               [] h[tipo.c].k = "Generic" -> TRUE)
      [] tipo.k = "Fn" -> TRUE
      [] OTHER -> \A i \in 1..Len(tipo.a) : unify_unbound_type(h, tipo.a[i], own_id)

\* The occurs check stopping at Link cells instead of following them.
unify_unbound_type_StopsAtLink(h, tipo, own_id) ==
    CASE tipo.k = "Var" -> h[tipo.c].k = "Unbound" => h[tipo.c].id # own_id
      [] tipo.k = "Fn" ->
            /\ \A i \in 1..Len(tipo.a) : unify_unbound_type(h, tipo.a[i], own_id)
            /\ unify_unbound_type(h, tipo.r[1], own_id)
      [] OTHER -> \A i \in 1..Len(tipo.a) : unify_unbound_type(h, tipo.a[i], own_id)

unify_unbound_type(h, tipo, own_id) ==
    CASE tipo.k = "Var" ->
            (CASE h[tipo.c].k = "Link" -> unify_unbound_type(h, h[tipo.c].t[1], own_id)
               [] h[tipo.c].k = "Unbound" -> h[tipo.c].id # own_id
               [] h[tipo.c].k = "Generic" -> TRUE)
      [] tipo.k = "Fn" ->
            /\ \A i \in 1..Len(tipo.a) : unify_unbound_type(h, tipo.a[i], own_id)
            /\ unify_unbound_type(h, tipo.r[1], own_id)
      [] OTHER -> \A i \in 1..Len(tipo.a) : unify_unbound_type(h, tipo.a[i], own_id)

UOk(h) == [ok |-> TRUE, err |-> "", h |-> h]

UErr(e, h) == [ok |-> FALSE, err |-> e, h |-> h]

\* unify_enclosed_type: a CouldNotUnify of a component is reported for the
\* enclosing pair, every other result is passed on.
unify_enclosed_type(res) ==
    IF ~res.ok /\ res.err = "CouldNotUnify" THEN UErr("CouldNotUnify", res.h) ELSE res

\* The map_err of the Fn arm: every error of a component becomes CouldNotUnify.
FnMapErr(res) == IF res.ok THEN res ELSE UErr("CouldNotUnify", res.h)

(***************************************************************************)
(* env.rs: Environment::unify.                                             *)
(***************************************************************************)
RECURSIVE unify(_, _, _, _)
RECURSIVE UnifyEach(_, _, _, _, _, _)

\* The `for (a, b) in args1.iter().zip(args2)` loops: stop at the first error.
UnifyEach(h, s1, s2, i, allow_cast, isFn) ==
    IF i > Len(s1) THEN UOk(h)
    ELSE LET res == unify(h, s1[i], s2[i], allow_cast) IN
         IF res.ok THEN UnifyEach(res.h, s1, s2, i + 1, allow_cast, isFn)
         ELSE IF isFn THEN FnMapErr(res) ELSE unify_enclosed_type(res)

unify(h, t1, t2, allow_cast) ==
    IF TypeEq(h, t1, t2) THEN UOk(h)
    ELSE IF /\ allow_cast
            /\ (is_data(h, t1) \/ is_data(h, t2))
            /\ ~(is_unbound(h, t1) \/ is_unbound(h, t2))
            /\ ~(is_function(t1) \/ is_function(t2))
            /\ ~(is_generic(h, t1) \/ is_generic(h, t2))
            /\ ~(is_string(h, t1) \/ is_string(h, t2))
    THEN UOk(h)
    ELSE IF t2.k = "Var" /\ h[t2.c].k = "Link"
    THEN unify(h, t1, h[t2.c].t[1], allow_cast)
    ELSE IF t1.k = "Var"
    THEN (CASE h[t1.c].k = "Link" -> unify(h, h[t1.c].t[1], t2, allow_cast)
            [] h[t1.c].k = "Unbound" ->
                IF unify_unbound_type(h, t2, h[t1.c].id)
                THEN UOk([h EXCEPT ![t1.c] = Link(t2)])
                ELSE UErr("RecursiveType", h)
            [] h[t1.c].k = "Generic" ->
                IF t2.k = "Var" /\ h[t2.c].k = "Unbound"
                THEN UOk([h EXCEPT ![t2.c] = Generic(h[t1.c].id)])
                ELSE UErr("CouldNotUnify", h))
    ELSE IF t2.k = "Var"
    THEN unify(h, t2, t1, allow_cast)
    ELSE CASE t1.k = "App" /\ t2.k = "App" /\ t1.n = t2.n /\ Len(t1.a) = Len(t2.a) ->
                UnifyEach(h, t1.a, t2.a, 1, allow_cast, FALSE)
           [] t1.k = "Tuple" /\ t2.k = "Tuple" /\ Len(t1.a) = Len(t2.a) ->
                UnifyEach(h, t1.a, t2.a, 1, allow_cast, FALSE)
           [] t1.k = "Fn" /\ t2.k = "Fn" /\ Len(t1.a) = Len(t2.a) ->
                LET res == UnifyEach(h, t1.a, t2.a, 1, allow_cast, TRUE) IN
                IF res.ok
                THEN FnMapErr(unify(res.h, t1.r[1], t2.r[1], allow_cast))
                ELSE res
           [] OTHER -> UErr("CouldNotUnify", h)

(***************************************************************************)
(* env.rs: new_unbound_var / next_uid: a fresh cell Unbound{id} whose id   *)
(* comes from the id generator; the model numbers cells by their id.       *)
(***************************************************************************)
RECURSIVE NewUnboundVars(_, _)
NewUnboundVars(h, n) ==
    IF n = 0 THEN h ELSE NewUnboundVars(Append(h, Unbound(Len(h) + 1)), n - 1)

FreshVars(h, n) == [i \in 1..n |-> TVar(Len(h) + i)]

(***************************************************************************)
(* tipo.rs: Type::get_app_args.  some = FALSE is None.                     *)
(***************************************************************************)
RECURSIVE get_app_args(_, _, _, _)
get_app_args(h, self, name, arity) ==
    CASE self.k = "App" ->
            IF self.n = name /\ Len(self.a) = arity
            THEN [some |-> TRUE, args |-> self.a, h |-> h]
            ELSE [some |-> FALSE, args |-> <<>>, h |-> h]
      [] self.k = "Var" ->
            (CASE h[self.c].k = "Link" -> get_app_args(h, h[self.c].t[1], name, arity)
               [] h[self.c].k = "Unbound" ->
                    LET args == FreshVars(h, arity)
                        h1 == NewUnboundVars(h, arity)
                    IN [some |-> TRUE, args |-> args,
                        h |-> [h1 EXCEPT ![self.c] = Link(TApp(name, args))]]
               [] h[self.c].k = "Generic" -> [some |-> FALSE, args |-> <<>>, h |-> h])
      [] OTHER -> [some |-> FALSE, args |-> <<>>, h |-> h]

(***************************************************************************)
(* env.rs: Environment::match_fun_type.                                    *)
(***************************************************************************)
RECURSIVE match_fun_type(_, _, _)
match_fun_type(h, tipo, arity) ==
    IF tipo.k = "Var" /\ h[tipo.c].k = "Link"
    THEN match_fun_type(h, h[tipo.c].t[1], arity)
    ELSE IF tipo.k = "Var" /\ h[tipo.c].k = "Unbound"
    THEN LET args == FreshVars(h, arity)
             ret == TVar(Len(h) + arity + 1)
             h1 == NewUnboundVars(h, arity + 1)
         IN [ok |-> TRUE, err |-> "", args |-> args, ret |-> <<ret>>,
             h |-> [h1 EXCEPT ![tipo.c] = Link(TFn(args, ret))]]
    ELSE IF tipo.k = "Fn"
    THEN IF Len(tipo.a) # arity
         THEN [ok |-> FALSE, err |-> "IncorrectFunctionCallArity", args |-> <<>>,
               ret |-> <<>>, h |-> h]
         ELSE [ok |-> TRUE, err |-> "", args |-> tipo.a, ret |-> tipo.r, h |-> h]
    ELSE [ok |-> FALSE, err |-> "NotFn", args |-> <<>>, ret |-> <<>>, h |-> h]

(***************************************************************************)
(* The types the callers hand to the environment: variables, prelude types *)
(* and one level of App / Tuple / Fn over them.                            *)
(***************************************************************************)
Cells(h) == 1..Len(h)

Atoms(h) == {TVar(c) : c \in Cells(h)} \cup {int, data, string}

Types(h) ==
    Atoms(h)
        \cup {list(x) : x \in Atoms(h)}
        \cup {TTuple(<<x, y>>) : x \in {TVar(c) : c \in Cells(h)}, y \in Atoms(h)}
        \cup {TFn(<<x>>, y) : x \in {TVar(c) : c \in Cells(h)}, y \in Atoms(h)}

NoCall == [op |-> "none", t1 |-> int, t2 |-> int, cast |-> FALSE, ok |-> TRUE,
           err |-> "", before |-> <<>>]

UnifyInit ==
    /\ heap \in {h \in [1..InitCells -> {Unbound(i) : i \in 1..InitCells}
                                         \cup {Generic(i) : i \in 1..InitCells}] :
                    \A i \in 1..InitCells : h[i].id = i}
    /\ ops = 0
    /\ last = NoCall

\* A caller invokes unify(t1, t2, _, allow_cast).
Unify ==
    /\ last.op = "none"
    /\ ops < MaxOps
    /\ \E t1 \in Types(heap), t2 \in Types(heap), allow_cast \in BOOLEAN :
          LET res == unify(heap, t1, t2, allow_cast) IN
          /\ heap' = res.h
          /\ last' = [op |-> "unify", t1 |-> t1, t2 |-> t2, cast |-> allow_cast,
                      ok |-> res.ok, err |-> res.err, before |-> heap]
    /\ ops' = ops + 1
    /\ UnifyFrame

\* A caller (the List pattern, the Int pattern) invokes tipo.get_app_args.
GetAppArgs ==
    /\ last.op = "none"
    /\ ops < MaxOps
    /\ \E self \in Types(heap), na \in {<<"List", 1>>, <<"Int", 0>>} :
          /\ Len(heap) + na[2] <= MaxCells
          /\ LET res == get_app_args(heap, self, na[1], na[2]) IN
             /\ heap' = res.h
             /\ last' = [op |-> "get_app_args", t1 |-> self, t2 |-> TApp(na[1], res.args),
                         cast |-> FALSE, ok |-> res.some, err |-> "", before |-> heap]
    /\ ops' = ops + 1
    /\ UnifyFrame

\* A caller (a call expression) invokes match_fun_type(tipo, arity, _, _).
MatchFunType ==
    /\ last.op = "none"
    /\ ops < MaxOps
    /\ \E tipo \in Types(heap), arity \in 0..1 :
          /\ Len(heap) + arity + 1 <= MaxCells
          /\ LET res == match_fun_type(heap, tipo, arity) IN
             /\ heap' = res.h
             /\ last' = [op |-> "match_fun_type", t1 |-> tipo, t2 |-> int,
                         cast |-> FALSE, ok |-> res.ok, err |-> res.err, before |-> heap]
    /\ ops' = ops + 1
    /\ UnifyFrame

\* The call returns to its caller, which goes on to its next call.
Return ==
    /\ last.op # "none"
    /\ last' = NoCall
    /\ UNCHANGED <<heap, ops>>
    /\ UnifyFrame

UnifyNext == Unify \/ GetAppArgs \/ MatchFunType \/ Return

(***************************************************************************)
(* Properties of unification.                                              *)
(***************************************************************************)
\* The cells a type mentions, without following any Link.
RECURSIVE CellsOf(_)
CellsOf(t) ==
    IF t.k = "Var" THEN {t.c}
    ELSE UNION ({CellsOf(t.a[i]) : i \in 1..Len(t.a)} \cup {CellsOf(t.r[i]) : i \in 1..Len(t.r)})

\* One step from a cell: the cells of the type it is linked to.
Succ(h, c) == IF h[c].k = "Link" THEN CellsOf(h[c].t[1]) ELSE {}

RECURSIVE ReachableFrom(_, _, _)
ReachableFrom(h, seen, n) ==
    IF n = 0 THEN seen
    ELSE ReachableFrom(h, seen \cup UNION {Succ(h, c) : c \in seen}, n - 1)

\* The cells reached from cell c in one step or more.
Reaches(h, c) == ReachableFrom(h, Succ(h, c), Len(h))

\* The type at the end of the Link chain a type starts with.
RECURSIVE ChaseLinks(_, _)
ChaseLinks(h, t) ==
    IF t.k = "Var" /\ h[t.c].k = "Link" THEN ChaseLinks(h, h[t.c].t[1]) ELSE t

\* Cell alpha occurs in t: directly, through Link cells, or inside arguments.
OccursIn(h, alpha, t) == \E c \in CellsOf(t) : alpha \in {c} \cup Reaches(h, c)

\* unify(x, y) was called with one argument the unbound variable alpha and the
\* other a type that is not alpha (Link cells are transparent) and contains it.
OccursCase(alpha, x, y) ==
    /\ last.op = "unify"
    /\ x = TVar(alpha)
    /\ last.before[alpha].k = "Unbound"
    /\ OccursIn(last.before, alpha, y)
    /\ ChaseLinks(last.before, y) # TVar(alpha)

\* C1: occurs check.  When unify is called on an unbound variable alpha and a
\* type other than alpha in which alpha occurs (directly under a constructor,
\* through Link cells, or nested in App/Fn/Tuple arguments), in either argument
\* order, the call fails and the cell of alpha is still Unbound afterwards.
C1_OccursCheck ==
    \A alpha \in 1..Len(last.before) :
        (OccursCase(alpha, last.t1, last.t2) \/ OccursCase(alpha, last.t2, last.t1))
            => /\ ~last.ok
               /\ heap[alpha] = Unbound(alpha)

\* The occurs check has rejected unify(T, alpha), alpha being reached only
\* through a Link cell inside an argument of T.
C1_Witness ==
    \E alpha \in 1..Len(last.before) :
        /\ OccursCase(alpha, last.t2, last.t1)
        /\ alpha \notin CellsOf(last.t1)
        /\ last.t1.k # "Var"
        /\ ~last.ok
        /\ last.err = "RecursiveType"

\* C2: no type-variable cell reaches itself by following Link cells and going
\* down into App/Fn/Tuple components, after any sequence of unify, get_app_args
\* and match_fun_type calls, failed calls included.
C2_NoLinkCycle == \A c \in 1..Len(heap) : c \notin Reaches(heap, c)

\* A failed unify call has left links behind, and get_app_args and
\* match_fun_type have linked cells to fresh variables.
C2_Witness ==
    /\ last.op = "unify"
    /\ ~last.ok
    /\ heap # last.before
    /\ \E c \in 1..Len(heap) : Reaches(heap, c) # {}

\* A type with every Link followed: what a variable stands for.
RECURSIVE Resolve(_, _)
Resolve(h, t) ==
    IF t.k = "Var"
    THEN IF h[t.c].k = "Link" THEN Resolve(h, h[t.c].t[1])
         ELSE [k |-> "Var", n |-> h[t.c].k, a |-> <<>>, r |-> <<>>, c |-> h[t.c].id]
    ELSE [t EXCEPT !.a = [i \in 1..Len(t.a) |-> Resolve(h, t.a[i])],
                   !.r = [i \in 1..Len(t.r) |-> Resolve(h, t.r[i])]]

\* A resolved type with its unbound variables renamed by p.
RECURSIVE Rename(_, _)
Rename(p, t) ==
    IF t.k = "Var"
    THEN IF t.n = "Unbound" THEN [t EXCEPT !.c = p[t.c]] ELSE t
    ELSE [t EXCEPT !.a = [i \in 1..Len(t.a) |-> Rename(p, t.a[i])],
                   !.r = [i \in 1..Len(t.r) |-> Rename(p, t.r[i])]]

\* Two cell states give every variable the same type up to a renaming of the
\* unbound variables.
SameSubstitution(h1, h2) ==
    /\ Len(h1) = Len(h2)
    /\ \E p \in Permutations(1..Len(h1)) :
          \A c \in 1..Len(h1) : Rename(p, Resolve(h1, TVar(c))) = Resolve(h2, TVar(c))

Symmetric(allow_cast) ==
    (last.op = "unify" /\ last.cast = allow_cast) =>
        LET flipped == unify(last.before, last.t2, last.t1, last.cast) IN
        /\ flipped.ok = last.ok
        /\ last.ok => SameSubstitution(heap, flipped.h)

\* C3: unification is symmetric.  For all types a and b and either value of
\* allow_cast, unify(a, b) succeeds iff unify(b, a) succeeds from the same cell
\* state, and the two resulting states give every variable the same type up to
\* renaming of type variables.
C3_UnifySymmetric == \A allow_cast \in BOOLEAN : Symmetric(allow_cast)

\* The same statement for allow_cast = false alone.
C3_UnifySymmetricNoCast == Symmetric(FALSE)

(***************************************************************************)
(* Exhaustiveness of `when` clauses (env.rs check_exhaustiveness).         *)
(***************************************************************************)
MaxClauses == 2
MaxElements == 2
MaxListLen == 3

\* ast Pattern, as matched on by check_exhaustiveness and pattern.rs.
PDiscard == [k |-> "Discard", n |-> "", v |-> 0, els |-> <<>>, tail |-> <<>>]

PVar(name) == [k |-> "Var", n |-> name, v |-> 0, els |-> <<>>, tail |-> <<>>]

PInt(value) == [k |-> "Int", n |-> "", v |-> value, els |-> <<>>, tail |-> <<>>]

\* Pattern::Assign { name, pattern }: `pattern as name`.
PAssign(name, pattern) ==
    [k |-> "Assign", n |-> name, v |-> 0, els |-> <<pattern>>, tail |-> <<>>]

\* Pattern::List { elements, tail }: tail is <<>> for None, <<p>> for Some(p).
PList(elements, tail) ==
    [k |-> "List", n |-> "", v |-> 0, els |-> elements, tail |-> tail]

\* Pattern::Constructor with constructor PatternConstructor::Record { name }.
PConstructor(name, arguments) ==
    [k |-> "Constructor", n |-> name, v |-> 0, els |-> arguments, tail |-> <<>>]

option(t) == TApp("Option", <<t>>)

\* module_types_constructors: type name -> declared constructor names.  Int has
\* no entry, so get_constructors_for_type fails for it.
module_types_constructors == [Option |-> <<"None", "Some">>, Bool |-> <<"False", "True">>]

get_constructors_for_type(name) ==
    IF name \in DOMAIN module_types_constructors
    THEN [ok |-> TRUE, constructors |-> module_types_constructors[name]]
    ELSE [ok |-> FALSE, constructors |-> <<>>]

ExhOk == [done |-> TRUE, ok |-> TRUE, missing |-> <<>>]

ExhErr(missing) == [done |-> TRUE, ok |-> FALSE, missing |-> missing]

\* The map at the head of check_list_pattern_exhaustiveness: one Assign layer
\* is taken off.
StripOneAssign(p) == IF p.k = "Assign" THEN p.els[1] ELSE p

\* The `while let Pattern::Assign` loop of check_exhaustiveness.
RECURSIVE StripAssigns(_)
StripAssigns(p) == IF p.k = "Assign" THEN StripAssigns(p.els[1]) ELSE p

check_list_pattern_exhaustiveness(patterns) ==
    LET ps == [i \in 1..Len(patterns) |-> StripOneAssign(patterns[i])]
        cover_empty ==
            \E i \in 1..Len(ps) :
                \/ ps[i].k \in {"Var", "Discard"}
                \/ ps[i].k = "List" /\ ps[i].els = <<>>
        cover_tail ==
            \E i \in 1..Len(ps) :
                \/ ps[i].k \in {"Var", "Discard"}
                \/ ps[i].k = "List" /\ ps[i].tail # <<>>
    IN IF cover_empty /\ cover_tail THEN ExhOk
       ELSE ExhErr((IF ~cover_empty THEN <<"[]">> ELSE <<>>)
                     \o (IF ~cover_tail THEN <<"[_, ..]">> ELSE <<>>))

\* The `for p in &patterns` loop of check_exhaustiveness: TRUE when a clause
\* makes it return Ok(()) at once, else the constructors still unmatched after
\* clause i.
RECURSIVE UnmatchedAfter(_, _, _)
UnmatchedAfter(patterns, i, unmatched) ==
    IF i > Len(patterns) THEN [early |-> FALSE, unmatched |-> unmatched]
    ELSE LET pattern == StripAssigns(patterns[i]) IN
         IF pattern.k = "Constructor"
         THEN UnmatchedAfter(patterns, i + 1, unmatched \ {pattern.n})
         ELSE [early |-> TRUE, unmatched |-> unmatched]

\* into_iter().sorted().collect(): the declared order of the model's types is
\* the lexicographic one.
SortedNames(constructors, unmatched) ==
    SelectSeq(constructors, LAMBDA name : name \in unmatched)

check_exhaustiveness(patterns, value_typ) ==
    IF value_typ.k # "App" THEN ExhOk
    ELSE IF value_typ.n = "List" THEN check_list_pattern_exhaustiveness(patterns)
    ELSE LET found == get_constructors_for_type(value_typ.n) IN
         IF ~found.ok THEN ExhOk
         ELSE LET all == {found.constructors[i] : i \in 1..Len(found.constructors)}
                  res == UnmatchedAfter(patterns, 1, all)
              IN IF res.early \/ res.unmatched = {} THEN ExhOk
                 ELSE ExhErr(SortedNames(found.constructors, res.unmatched))

\* Patterns of an Int subject.
IntPatterns == {PDiscard, PInt(0)}

RECURSIVE SeqsUpTo(_, _)
SeqsUpTo(S, n) ==
    IF n = 0 THEN {<<>>}
    ELSE LET shorter == SeqsUpTo(S, n - 1) IN
         shorter \cup {Append(q, x) : q \in {r \in shorter : Len(r) = n - 1}, x \in S}

\* Clause patterns of a List<Int> subject; the tail of a list pattern is a
\* variable or a discard.
ListPatterns ==
    {PDiscard, PVar("xs"), PAssign("all", PList(<<>>, <<>>))}
        \cup {PList(els, tail) : els \in SeqsUpTo(IntPatterns, MaxElements),
                                 tail \in {<<>>, <<PDiscard>>, <<PVar("rest")>>}}

\* Clause patterns of an Option<Int> subject.
OptionPatterns ==
    {PDiscard, PVar("o"), PConstructor("None", <<>>),
     PAssign("s", PConstructor("Some", <<PDiscard>>))}
        \cup {PConstructor("Some", <<p>>) : p \in IntPatterns}

PatternsOf(value_typ) ==
    CASE value_typ = list(int) -> ListPatterns
      [] value_typ = option(int) -> OptionPatterns
      [] value_typ = int -> IntPatterns

Subjects == {list(int), option(int), int}

ExhIdle ==
    /\ clauses = <<>>
    /\ subject = int
    /\ verdict = [done |-> FALSE, ok |-> FALSE, missing |-> <<>>]

\* A typed `when` expression reaches the exhaustiveness check.
ExhInit ==
    /\ subject \in Subjects
    /\ clauses \in SeqsUpTo(PatternsOf(subject), MaxClauses) \ {<<>>}
    /\ verdict = [done |-> FALSE, ok |-> FALSE, missing |-> <<>>]

CheckExhaustiveness ==
    /\ ~verdict.done
    /\ clauses # <<>>
    /\ verdict' = check_exhaustiveness(clauses, subject)
    /\ UNCHANGED <<clauses, subject>>
    /\ ExhFrame

ExhNext == CheckExhaustiveness

(***************************************************************************)
(* The values of a subject type and pattern matching on them.              *)
(***************************************************************************)
Ints == {0, 1}

VInt(i) == [k |-> "Int", n |-> "", v |-> i, items |-> <<>>]

VList(items) == [k |-> "List", n |-> "", v |-> 0, items |-> items]

VConstr(name, fields) == [k |-> "Constr", n |-> name, v |-> 0, items |-> fields]

ValuesOf(value_typ) ==
    CASE value_typ = int -> {VInt(i) : i \in Ints}
      [] value_typ = list(int) ->
            {VList(items) : items \in SeqsUpTo({VInt(i) : i \in Ints}, MaxListLen)}
      [] value_typ = option(int) ->
            {VConstr("None", <<>>)} \cup {VConstr("Some", <<VInt(i)>>) : i \in Ints}

RECURSIVE Matches(_, _)
Matches(p, value) ==
    CASE p.k \in {"Discard", "Var"} -> TRUE
      [] p.k = "Assign" -> Matches(p.els[1], value)
      [] p.k = "Int" -> value.k = "Int" /\ value.v = p.v
      [] p.k = "List" ->
            /\ value.k = "List"
            /\ IF p.tail = <<>> THEN Len(value.items) = Len(p.els)
               ELSE Len(value.items) >= Len(p.els)
            /\ \A i \in 1..Len(p.els) : Matches(p.els[i], value.items[i])
      [] p.k = "Constructor" ->
            /\ value.k = "Constr"
            /\ value.n = p.n
            /\ \A i \in 1..Len(p.els) : Matches(p.els[i], value.items[i])

\* C4: exhaustiveness checking is sound.  Whenever check_exhaustiveness returns
\* Ok for the clause patterns and the subject type, every value of the subject
\* type is matched by at least one clause; for a List subject, every list of
\* every length is matched by some clause.
C4_ExhaustivenessSound ==
    (verdict.done /\ verdict.ok) =>
        \A value \in ValuesOf(subject) : \E i \in 1..Len(clauses) : Matches(clauses[i], value)

\* The same for List subjects alone.
C4_ListExhaustivenessSound ==
    (verdict.done /\ verdict.ok /\ subject = list(int)) =>
        \A value \in ValuesOf(subject) : \E i \in 1..Len(clauses) : Matches(clauses[i], value)

(***************************************************************************)
(* Flat ZigZag (zigzag.rs).  isize/usize and i128/u128 are modelled at the  *)
(* widths Bits and 2 * Bits; the arithmetic is two's complement at that     *)
(* width.                                                                  *)
(***************************************************************************)
Bits == 5

RECURSIVE Pow2(_)
Pow2(n) == IF n = 0 THEN 1 ELSE 2 * Pow2(n - 1)

MinSigned(w) == -Pow2(w - 1)

MaxSigned(w) == Pow2(w - 1) - 1

\* `as isize` / wrapping arithmetic: the signed value of n modulo 2^w.
WrapSigned(w, n) ==
    LET m == n % Pow2(w) IN IF m >= Pow2(w - 1) THEN m - Pow2(w) ELSE m

\* `as usize`: the unsigned value of n modulo 2^w.
AsUnsigned(w, n) == n % Pow2(w)

\* Bitwise xor of two unsigned values.
RECURSIVE Xor(_, _)
Xor(a, b) ==
    IF a = 0 /\ b = 0 THEN 0
    ELSE (((a % 2) + (b % 2)) % 2) + 2 * Xor(a \div 2, b \div 2)

Value(v) == [panic |-> FALSE, v |-> v]

Panic == [panic |-> TRUE, v |-> 0]

\* Unary minus and binary minus on a signed integer: an overflow traps when the
\* build checks overflow and wraps otherwise.
CheckedSigned(w, checks, n) ==
    IF n < MinSigned(w) \/ n > MaxSigned(w)
    THEN IF checks THEN Panic ELSE Value(WrapSigned(w, n))
    ELSE Value(n)

\* to_usize (w = Bits) and to_u128 (w = 2 * Bits).
to_unsigned(w, checks, x) ==
    LET double_x == WrapSigned(w, x * 2) IN
    IF x > 0 \/ x = 0 THEN Value(AsUnsigned(w, double_x))
    ELSE LET neg == CheckedSigned(w, checks, -double_x) IN
         IF neg.panic THEN Panic
         ELSE LET res == CheckedSigned(w, checks, neg.v - 1) IN
              IF res.panic THEN Panic ELSE Value(AsUnsigned(w, res.v))

\* to_isize (w = Bits) and to_i128 (w = 2 * Bits).
to_signed(w, u) ==
    LET half == WrapSigned(w, u \div 2)
        mask == -WrapSigned(w, u % 2)
    IN Value(WrapSigned(w, Xor(AsUnsigned(w, half), AsUnsigned(w, mask))))

Widths == {Bits, 2 * Bits}

NotDone == [panic |-> FALSE, v |-> 0, done |-> FALSE]

ZigIdle ==
    /\ overflow_checks = FALSE
    /\ zin = [w |-> 0, signed |-> TRUE, v |-> 0]
    /\ zmid = NotDone
    /\ zout = NotDone

\* A caller hands a signed integer to the encoder or an unsigned one to the
\* decoder; the crate is built with or without overflow checks.
ZigInit ==
    /\ overflow_checks \in BOOLEAN
    /\ \E w \in Widths :
          \/ \E x \in MinSigned(w)..MaxSigned(w) : zin = [w |-> w, signed |-> TRUE, v |-> x]
          \/ \E u \in 0..(Pow2(w) - 1) : zin = [w |-> w, signed |-> FALSE, v |-> u]
    /\ zmid = NotDone
    /\ zout = NotDone

Done(res) == [panic |-> res.panic, v |-> res.v, done |-> TRUE]

\* to_usize / to_u128 on a signed input, to_isize / to_i128 on an unsigned one.
ZigFirst ==
    /\ zin.w # 0
    /\ ~zmid.done
    /\ zmid' = Done(IF zin.signed THEN to_unsigned(zin.w, overflow_checks, zin.v)
                    ELSE to_signed(zin.w, zin.v))
    /\ UNCHANGED <<overflow_checks, zin, zout>>
    /\ ZigFrame

\* The conversion back; a panic of the first conversion has ended the program.
ZigBack ==
    /\ zin.w # 0
    /\ zmid.done
    /\ ~zmid.panic
    /\ ~zout.done
    /\ zout' = Done(IF zin.signed THEN to_signed(zin.w, zmid.v)
                    ELSE to_unsigned(zin.w, overflow_checks, zmid.v))
    /\ UNCHANGED <<overflow_checks, zin, zmid>>
    /\ ZigFrame

ZigNext == ZigFirst \/ ZigBack

\* C5: ZigZag is a bijection at both widths.  For every signed x of the width,
\* the minimum and the values whose doubling overflows included, converting to
\* unsigned and back gives x, and for every unsigned u converting to signed and
\* back gives u; to_usize(-1) = 1, to_usize(1) = 2, to_usize(-2) = 3.
C5_ZigZagBijection ==
    /\ (zin.w # 0 /\ zmid.done) =>
          /\ ~zmid.panic
          /\ (zin.signed /\ zin.v = -1) => zmid.v = 1
          /\ (zin.signed /\ zin.v = 1) => zmid.v = 2
          /\ (zin.signed /\ zin.v = -2) => zmid.v = 3
    /\ (zin.w # 0 /\ zout.done) =>
          /\ ~zout.panic
          /\ zout.v = zin.v

\* The same in a build that wraps on overflow.
C5_ZigZagBijectionWrapping == ~overflow_checks => C5_ZigZagBijection

(***************************************************************************)
(* Air stacks and scopes (gen_uplc/scope.rs, gen_uplc/stack.rs).           *)
(***************************************************************************)
MaxIds == 4
MaxAir == 2

\* The `for index in 0..longest_length` loop of Scope::common_ancestor, with
\* index counted from 1.
RECURSIVE CommonAncestorLoop(_, _, _)
CommonAncestorLoop(self, other, index) ==
    LET longest_length == IF Len(self) >= Len(other) THEN Len(self) ELSE Len(other) IN
    IF index > longest_length THEN <<>>
    ELSE IF index > Len(self) THEN self
    ELSE IF index > Len(other) THEN other
    ELSE IF self[index] # other[index] THEN SubSeq(self, 1, index - 1)
    ELSE CommonAncestorLoop(self, other, index + 1)

common_ancestor(self, other) ==
    IF self = other THEN self ELSE CommonAncestorLoop(self, other, 1)

\* Scope::replace without the drain of the common ancestor.
replace_KeepsCommon(self, replacement) == replacement \o self

\* Scope::replace: drain the common ancestor, put the replacement in front.
replace(self, replacement) ==
    LET common == common_ancestor(self, replacement) IN
    replacement \o SubSeq(self, Len(common) + 1, Len(self))

AirStack(id, air) == [st |-> "live", scope |-> id, air |-> air]

\* A stack not yet created.
NoStack == [st |-> "free", scope |-> <<>>, air |-> <<>>]

\* A stack that was moved into a merge call: it can no longer be used.
Moved == [st |-> "moved", scope |-> <<>>, air |-> <<>>]

\* AirStack::merge putting the other stack's instructions in place of its own.
merge_Overwrites(self, other) == [self EXCEPT !.air = other.air]

\* AirStack::merge: append the other stack's instructions.
merge(self, other) == [self EXCEPT !.air = self.air \o other.air]

\* AirStack::merge_child: rewrite the scope of every instruction of the child
\* against the parent's scope, then merge.
merge_child(self, other) ==
    merge(self, [other EXCEPT !.air =
                    [i \in 1..Len(other.air) |->
                        [other.air[i] EXCEPT !.scope = replace(other.air[i].scope, self.scope)]]])

StackNames == {"a", "b", "c"}

NoMerge == [done |-> FALSE, parent |-> NoStack, child |-> NoStack, result |-> NoStack]

NoAssoc == [done |-> FALSE, a |-> NoStack, b |-> NoStack, c |-> NoStack,
            left |-> NoStack, right |-> NoStack]

AirIdle ==
    /\ stacks = [s \in StackNames |-> NoStack]
    /\ id_gen = 0
    /\ merged = NoMerge
    /\ assoc = NoAssoc

\* AirStack::new for the first stack; IdGenerator::new starts at 0.
AirInit ==
    /\ stacks = [s \in StackNames |-> IF s = "a" THEN AirStack(<<>>, <<>>) ELSE NoStack]
    /\ id_gen = 0
    /\ merged = NoMerge
    /\ assoc = NoAssoc

\* AirStack::new: another stack with the empty scope.
New(s) ==
    /\ stacks[s].st = "free"
    /\ stacks' = [stacks EXCEPT ![s] = AirStack(<<>>, <<>>)]
    /\ UNCHANGED <<id_gen, merged, assoc>>
    /\ AirFrame

\* p.empty_with_scope(): a stack with a copy of p's scope and no instruction.
EmptyWithScope(p, s) ==
    /\ stacks[p].st = "live"
    /\ stacks[s].st = "free"
    /\ stacks' = [stacks EXCEPT ![s] = AirStack(stacks[p].scope, <<>>)]
    /\ UNCHANGED <<id_gen, merged, assoc>>
    /\ AirFrame

\* s.integer(value): new_scope pushes the next id on the scope, then the
\* instruction is pushed with a copy of the scope.
Integer(s) ==
    /\ stacks[s].st = "live"
    /\ id_gen < MaxIds
    /\ Len(stacks[s].air) < MaxAir
    /\ LET new_scope == Append(stacks[s].scope, id_gen) IN
       stacks' = [stacks EXCEPT ![s] =
                    AirStack(new_scope,
                             Append(stacks[s].air, [value |-> id_gen, scope |-> new_scope]))]
    /\ id_gen' = id_gen + 1
    /\ UNCHANGED <<merged, assoc>>
    /\ AirFrame

\* p.merge_child(ch): ch is moved into the call.
MergeChild(p, ch) ==
    /\ p # ch
    /\ stacks[p].st = "live"
    /\ stacks[ch].st = "live"
    /\ LET result == merge_child(stacks[p], stacks[ch]) IN
       /\ stacks' = [stacks EXCEPT ![p] = result, ![ch] = Moved]
       /\ merged' = [done |-> TRUE, parent |-> stacks[p], child |-> stacks[ch],
                     result |-> result]
    /\ UNCHANGED <<id_gen, assoc>>
    /\ AirFrame

\* The three stacks are merged in both groupings, each on its own copy:
\* a.merge_child(b); a.merge_child(c)  and  b.merge_child(c); a.merge_child(b).
MergeBothWays ==
    /\ ~assoc.done
    /\ \A s \in StackNames : stacks[s].st = "live"
    /\ assoc' = [done |-> TRUE, a |-> stacks["a"], b |-> stacks["b"], c |-> stacks["c"],
                 left |-> merge_child(merge_child(stacks["a"], stacks["b"]), stacks["c"]),
                 right |-> merge_child(stacks["a"], merge_child(stacks["b"], stacks["c"]))]
    /\ UNCHANGED <<stacks, id_gen, merged>>
    /\ AirFrame

AirNext ==
    \/ \E s \in StackNames : New(s)
    \/ \E p \in StackNames, s \in StackNames : EmptyWithScope(p, s)
    \/ \E s \in StackNames : Integer(s)
    \/ \E p \in StackNames, ch \in StackNames : MergeChild(p, ch)
    \/ MergeBothWays

\* The values of the instructions of an air vector, in order.
ValuesOfAir(air) == [i \in 1..Len(air) |-> air[i].value]

IsPrefix(p, q) == Len(p) <= Len(q) /\ SubSeq(q, 1, Len(p)) = p

\* The length of the longest common prefix of two scopes.
LcpLen(p, q) ==
    CHOOSE n \in 0..Len(p) :
        /\ n <= Len(q)
        /\ SubSeq(p, 1, n) = SubSeq(q, 1, n)
        /\ \A m \in (n + 1)..Len(p) : m > Len(q) \/ SubSeq(p, 1, m) # SubSeq(q, 1, m)

\* C6: scope merging is associative.  For any three Air stacks a, b, c, merging
\* b into a and then c into the result (merge_child) yields the same
\* instruction sequence, with the same scope on every instruction, as merging
\* c into b and then the result into a.
C6_MergeAssociative == assoc.done => assoc.left = assoc.right

\* C6 as amended: both groupings yield the instructions of a, then b, then c, in
\* their original order, under the scope of a, with the same scope on every
\* instruction that came from a or from b; the scopes of the instructions that
\* came from c are left out of the statement.
C6_MergeOrderPreserved ==
    assoc.done =>
        LET n == Len(assoc.a.air) + Len(assoc.b.air) IN
        /\ ValuesOfAir(assoc.left.air) =
              ValuesOfAir(assoc.a.air) \o ValuesOfAir(assoc.b.air) \o ValuesOfAir(assoc.c.air)
        /\ ValuesOfAir(assoc.right.air) = ValuesOfAir(assoc.left.air)
        /\ SubSeq(assoc.left.air, 1, n) = SubSeq(assoc.right.air, 1, n)
        /\ assoc.left.scope = assoc.a.scope
        /\ assoc.right.scope = assoc.a.scope

\* Three stacks, each holding an instruction, have been merged both ways, and
\* the instruction of c ends with different scopes.
C6_Witness ==
    /\ assoc.done
    /\ assoc.a.air # <<>>
    /\ assoc.b.air # <<>>
    /\ assoc.c.air # <<>>
    /\ assoc.left # assoc.right

\* C7: after parent.merge_child(child), for every instruction that came from
\* child the parent's scope is a prefix of its scope, and its new scope is
\* parent.scope followed by the part of its old scope beyond the longest common
\* prefix with parent.scope; the instructions already in parent are unchanged
\* and the child's instructions are appended in their original order.
C7_MergeChildScopes ==
    merged.done =>
        LET parent == merged.parent
            child == merged.child
            result == merged.result
        IN /\ result.scope = parent.scope
           /\ Len(result.air) = Len(parent.air) + Len(child.air)
           /\ SubSeq(result.air, 1, Len(parent.air)) = parent.air
           /\ \A i \in 1..Len(child.air) :
                 LET old == child.air[i]
                     new == result.air[Len(parent.air) + i]
                 IN /\ new.value = old.value
                    /\ IsPrefix(parent.scope, new.scope)
                    /\ new.scope = parent.scope
                          \o SubSeq(old.scope, LcpLen(old.scope, parent.scope) + 1, Len(old.scope))

\* A child instruction that shared a proper, non-empty prefix with the parent's
\* scope has been merged into a parent that already held an instruction.
C7_Witness ==
    /\ merged.done
    /\ merged.parent.air # <<>>
    /\ \E i \in 1..Len(merged.child.air) :
          LET n == LcpLen(merged.child.air[i].scope, merged.parent.scope) IN
          /\ n > 0
          /\ n < Len(merged.child.air[i].scope)
          /\ n < Len(merged.parent.scope)

(***************************************************************************)
(* Scopes and entity usages (tipo/env.rs).                                 *)
(***************************************************************************)
MaxDepth == 3
MaxScopeOps == 5

\* The names that are declared, used and bound.
Names == {"a", "b"}

\* The names of types a PrivateTypeConstructor can belong to.
TypeNames == {"b"}

\* EntityKind; `of` is the type_name of a PrivateTypeConstructor.
EntityKind(kind, type_name) == [kind |-> kind, of |-> type_name]

EntityKinds ==
    {EntityKind(k, "") : k \in {"PrivateConstant", "PrivateFunction", "ImportedConstructor",
                                 "ImportedType", "ImportedTypeAndConstructor",
                                 "ImportedValue", "PrivateType", "Variable"}}
    \cup {EntityKind("PrivateTypeConstructor", t) : t \in TypeNames}

\* An entry (EntityKind, Span, bool) of a usage map, the span left out; a usage
\* map is a function on Names whose absent keys hold NoEntry.
Entry(kind, used) == [kind |-> kind.kind, of |-> kind.of, used |-> used]

NoEntry == [kind |-> "None", of |-> "", used |-> FALSE]

EmptyUsages == [n \in Names |-> NoEntry]

\* ValueConstructor { public, variant, tipo } of a local variable.
ValueConstructor(tipo) == [public |-> FALSE, variant |-> "LocalVariable", tipo |-> tipo]

\* The name-to-value map is a function on Names whose absent keys hold NoValue.
NoValue == [public |-> FALSE, variant |-> "None", tipo |-> int]

ValueConstructors == {ValueConstructor(int), ValueConstructor(string)}

\* Warning, the location left out.
Warning(w, name, imported) == [w |-> w, name |-> name, imported |-> imported]

\* handle_unused: the warning of one unused entry.
WarningOf(name, kind) ==
    CASE kind \in {"ImportedType", "ImportedTypeAndConstructor"} -> Warning("UnusedType", name, TRUE)
      [] kind = "ImportedConstructor" -> Warning("UnusedConstructor", name, TRUE)
      [] kind = "PrivateConstant" -> Warning("UnusedPrivateModuleConstant", name, FALSE)
      [] kind = "PrivateTypeConstructor" -> Warning("UnusedConstructor", name, FALSE)
      [] kind = "PrivateFunction" -> Warning("UnusedPrivateFunction", name, FALSE)
      [] kind = "PrivateType" -> Warning("UnusedType", name, FALSE)
      [] kind = "ImportedValue" -> Warning("UnusedImportedValue", name, FALSE)
      [] kind = "Variable" -> Warning("UnusedVariable", name, FALSE)

\* The orders in which a HashMap can yield the keys in S.
IterationOrders(S) ==
    {f \in [1..Cardinality(S) -> S] : \A i, j \in 1..Cardinality(S) : f[i] = f[j] => i = j}

\* A variant of handle_unused that passes over the entries of types.
handle_unused_SkipsTypes(unused) ==
    LET keep == {n \in Names : /\ unused[n] # NoEntry
                               /\ ~unused[n].used
                               /\ unused[n].kind \notin {"ImportedType",
                                      "ImportedTypeAndConstructor", "PrivateType"}} IN
    {[i \in 1..Cardinality(keep) |-> WarningOf(o[i], unused[o[i]].kind)] :
        o \in IterationOrders(keep)}

\* handle_unused: one warning for every entry whose used flag is false, pushed
\* in the iteration order of the map; the result is the set of the sequences
\* of warnings the call can push.
handle_unused(unused) ==
    LET keep == {n \in Names : unused[n] # NoEntry /\ ~unused[n].used} IN
    {[i \in 1..Cardinality(keep) |-> WarningOf(o[i], unused[o[i]].kind)] :
        o \in IterationOrders(keep)}

\* The innermost usage map that holds name, 0 if none does
\* (entity_usages.iter_mut().rev().find_map(..)).
FindUsage(usages, name) ==
    LET found == {i \in 1..Len(usages) : usages[i][name] # NoEntry} IN
    IF found = {} THEN 0 ELSE CHOOSE i \in found : \A j \in found : j <= i

\* increment_usage: mark the innermost entry of name used; for a constructor
\* of another type go on with the name of the type.
RECURSIVE increment_usage(_, _)
increment_usage(usages, name) ==
    LET i == FindUsage(usages, name) IN
    IF i = 0 THEN usages
    ELSE LET e == usages[i][name]
             marked == [usages EXCEPT ![i][name].used = TRUE] IN
         IF e.kind = "PrivateTypeConstructor" /\ e.of # name
         THEN increment_usage(marked, e.of)
         ELSE marked

\* init_usage: insert into the innermost usage map; an unused entry the insert
\* replaces is warned about unless it is of a type.
init_usage(usages, name, kind) ==
    LET top == Len(usages)
        old == usages[top][name]
        pushed == IF old = NoEntry
                  THEN <<>>
                  ELSE IF old.kind \in {"ImportedType", "ImportedTypeAndConstructor",
                                        "PrivateType"}
                  THEN <<>>
                  ELSE IF ~old.used
                  THEN CHOOSE w \in handle_unused([EmptyUsages EXCEPT ![name] = old]) : TRUE
                  ELSE <<>> IN
    [usages |-> [usages EXCEPT ![top][name] = Entry(kind, FALSE)],
     pushed |-> pushed, replaced |-> old]

NoScopeCall ==
    [op |-> "none", name |-> "", popped |-> EmptyUsages, replaced |-> NoEntry,
     pushed |-> <<>>, before |-> [n \in Names |-> NoValue],
     at_open |-> [scope |-> [n \in Names |-> NoValue], depth |-> 0]]

ScopeIdle ==
    /\ scope = [n \in Names |-> NoValue]
    /\ entity_usages = <<>>
    /\ warnings = <<>>
    /\ resets = <<>>
    /\ opened = <<>>
    /\ sops = 0
    /\ slast = NoScopeCall

\* Environment::build: the scope holds the prelude's values (here one, named
\* a), the usage stack one empty map, and no warning has been collected.
ScopeInit ==
    /\ scope = [n \in Names |-> IF n = "a" THEN ValueConstructor(int) ELSE NoValue]
    /\ entity_usages = <<EmptyUsages>>
    /\ warnings = <<>>
    /\ resets = <<>>
    /\ opened = <<>>
    /\ sops = 0
    /\ slast = NoScopeCall

\* open_new_scope: clone the scope into a ScopeResetData, which the caller
\* (in_new_scope) holds until the matching close, and push an empty usage map.
\* `opened` remembers the scope and the depth of the usage stack at the call.
OpenNewScope ==
    /\ sops < MaxScopeOps
    /\ Len(entity_usages) < MaxDepth
    /\ resets' = Append(resets, [local_values |-> scope])
    /\ opened' = Append(opened, [scope |-> scope, depth |-> Len(entity_usages)])
    /\ entity_usages' = Append(entity_usages, EmptyUsages)
    /\ sops' = sops + 1
    /\ slast' = [NoScopeCall EXCEPT !.op = "open_new_scope"]
    /\ UNCHANGED <<scope, warnings>>
    /\ ScopeFrame

\* A variant of close_scope that leaves the scope as the closed block made it.
CloseScope_KeepsScope ==
    /\ sops < MaxScopeOps
    /\ resets # <<>>
    /\ LET unused == entity_usages[Len(entity_usages)] IN
       \E ws \in handle_unused(unused) :
          /\ entity_usages' = SubSeq(entity_usages, 1, Len(entity_usages) - 1)
          /\ warnings' = warnings \o ws
          /\ scope' = scope
          /\ slast' = [NoScopeCall EXCEPT !.op = "close_scope", !.popped = unused,
                                          !.pushed = ws, !.before = scope,
                                          !.at_open = opened[Len(opened)]]
    /\ resets' = SubSeq(resets, 1, Len(resets) - 1)
    /\ opened' = SubSeq(opened, 1, Len(opened) - 1)
    /\ sops' = sops + 1
    /\ ScopeFrame

\* close_scope(data) with the data of the innermost open scope: pop the usage
\* map, warn about its unused entries, restore the scope.
CloseScope ==
    /\ sops < MaxScopeOps
    /\ resets # <<>>
    /\ LET reset == resets[Len(resets)]
           unused == entity_usages[Len(entity_usages)] IN
       \E ws \in handle_unused(unused) :
          /\ entity_usages' = SubSeq(entity_usages, 1, Len(entity_usages) - 1)
          /\ warnings' = warnings \o ws
          /\ scope' = reset.local_values
          /\ slast' = [NoScopeCall EXCEPT !.op = "close_scope", !.popped = unused,
                                          !.pushed = ws, !.before = scope,
                                          !.at_open = opened[Len(opened)]]
    /\ resets' = SubSeq(resets, 1, Len(resets) - 1)
    /\ opened' = SubSeq(opened, 1, Len(opened) - 1)
    /\ sops' = sops + 1
    /\ ScopeFrame

\* insert_variable(name, variant, tipo).
InsertVariable(name, value) ==
    /\ sops < MaxScopeOps
    /\ scope' = [scope EXCEPT ![name] = value]
    /\ sops' = sops + 1
    /\ slast' = [NoScopeCall EXCEPT !.op = "insert_variable", !.name = name]
    /\ UNCHANGED <<entity_usages, warnings, resets, opened>>
    /\ ScopeFrame

\* init_usage(name, kind, location).
InitUsage(name, kind) ==
    /\ sops < MaxScopeOps
    /\ LET res == init_usage(entity_usages, name, kind) IN
       /\ entity_usages' = res.usages
       /\ warnings' = warnings \o res.pushed
       /\ slast' = [NoScopeCall EXCEPT !.op = "init_usage", !.name = name,
                                       !.replaced = res.replaced, !.pushed = res.pushed]
    /\ sops' = sops + 1
    /\ UNCHANGED <<scope, resets, opened>>
    /\ ScopeFrame

\* increment_usage(name).
IncrementUsage(name) ==
    /\ sops < MaxScopeOps
    /\ entity_usages' = increment_usage(entity_usages, name)
    /\ sops' = sops + 1
    /\ slast' = [NoScopeCall EXCEPT !.op = "increment_usage", !.name = name]
    /\ UNCHANGED <<scope, warnings, resets, opened>>
    /\ ScopeFrame

ScopeNext ==
    \/ OpenNewScope
    \/ CloseScope
    \/ \E name \in Names, value \in ValueConstructors : InsertVariable(name, value)
    \/ \E name \in Names, kind \in EntityKinds : InitUsage(name, kind)
    \/ \E name \in Names : IncrementUsage(name)

(***************************************************************************)
(* Scopes: the claims.                                                     *)
(***************************************************************************)
TypeKinds == {"ImportedType", "ImportedTypeAndConstructor", "PrivateType"}

Unused(usages) == {n \in Names : usages[n] # NoEntry /\ ~usages[n].used}

WarnedAbout(pushed, name) == \E i \in 1..Len(pushed) : pushed[i].name = name

\* C8: close_scope emits an unused-binding warning for every entry of the
\* popped usage map whose used flag is false, except entries of kind
\* ImportedType, ImportedTypeAndConstructor or PrivateType, for which no
\* warning is emitted.
C8_TypesIgnoredOnClose ==
    slast.op = "close_scope" =>
        \A n \in Unused(slast.popped) :
            IF slast.popped[n].kind \in TypeKinds
            THEN ~WarnedAbout(slast.pushed, n)
            ELSE \E i \in 1..Len(slast.pushed) :
                    slast.pushed[i] = WarningOf(n, slast.popped[n].kind)

\* C8, as the code has it: close_scope pushes exactly one warning for every
\* entry of the popped usage map whose used flag is false, of whatever kind
\* (UnusedType for the three kinds of types), and none for a used entry.  The
\* three kinds of types are passed over by init_usage only: an unused entry
\* that an insert under the same name replaces is warned about unless it is of
\* one of them.
C8_UnusedWarnedOnClose ==
    /\ slast.op = "close_scope" =>
          /\ Len(slast.pushed) = Cardinality(Unused(slast.popped))
          /\ \A n \in Unused(slast.popped) :
                \E i \in 1..Len(slast.pushed) :
                   slast.pushed[i] = WarningOf(n, slast.popped[n].kind)
          /\ Len(warnings) >= Len(slast.pushed)
          /\ SubSeq(warnings, Len(warnings) - Len(slast.pushed) + 1, Len(warnings))
                = slast.pushed
    /\ slast.op = "init_usage" =>
          slast.pushed = IF /\ slast.replaced # NoEntry
                            /\ ~slast.replaced.used
                            /\ slast.replaced.kind \notin TypeKinds
                         THEN <<WarningOf(slast.name, slast.replaced.kind)>>
                         ELSE <<>>

\* A scope has been closed whose usage map held an unused type next to an
\* unused entry of another kind.
C8_Witness ==
    /\ slast.op = "close_scope"
    /\ \E n, o \in Unused(slast.popped) :
          /\ slast.popped[n].kind \in TypeKinds
          /\ slast.popped[o].kind \notin TypeKinds

\* C9: scope bracketing.  Whatever insert_variable, init_usage and
\* increment_usage calls and nested open/close pairs happen between
\* open_new_scope and the matching close_scope, after close_scope the scope
\* map equals the map at the time of the open and the usage stack has the
\* depth it had before the open.
C9_ScopeBracketing ==
    slast.op = "close_scope" =>
        /\ scope = slast.at_open.scope
        /\ Len(entity_usages) = slast.at_open.depth

\* A scope opened inside another one has been closed after the block
\* inserted a variable and declared an entity.
C9_Witness ==
    /\ slast.op = "close_scope"
    /\ slast.at_open.depth >= 2
    /\ slast.before # slast.at_open.scope
    /\ slast.popped # EmptyUsages

(***************************************************************************)
(* The pattern typer (tipo/pattern.rs).                                    *)
(***************************************************************************)
MaxPatternElements == 2
MaxAlternatives == 2

\* PatternMode.
Initial == [k |-> "Initial", assigned |-> <<>>]

Alternative(assigned) == [k |-> "Alternative", assigned |-> assigned]

\* The typer with its environment while a call runs: the cells, the scope,
\* the usage maps, the warnings, the mode and the variables of the initial
\* pattern; ok, err and name are the Result so far.
PatternTyper(h, values, usages, pushed, pattern_mode, pattern_vars) ==
    [h |-> h, scope |-> values, entity_usages |-> usages, warnings |-> pushed,
     mode |-> pattern_mode, initial_pattern_vars |-> pattern_vars,
     ok |-> TRUE, err |-> "", name |-> ""]

Fail(t, err, name) == [t EXCEPT !.ok = FALSE, !.err = err, !.name = name]

\* The typer after Environment::unify has returned res: the cells are as unify
\* left them, and an error of unify is the error of the typer.
Unified(t, res) ==
    IF res.ok THEN [t EXCEPT !.h = res.h] ELSE Fail([t EXCEPT !.h = res.h], res.err, "")

\* insert_variable in the Initial mode, after init_usage has returned u.
InsertInitial(t, u, name, typ) ==
    IF name \in t.initial_pattern_vars
    THEN Fail([t EXCEPT !.entity_usages = u.usages, !.warnings = t.warnings \o u.pushed],
              "DuplicateVarInPattern", name)
    ELSE [t EXCEPT !.entity_usages = u.usages,
                   !.warnings = t.warnings \o u.pushed,
                   !.initial_pattern_vars = t.initial_pattern_vars \cup {name},
                   !.scope[name] = ValueConstructor(typ)]

\* PatternTyper::insert_variable.
insert_variable(t, name, typ) ==
    IF t.mode.k = "Initial"
    THEN InsertInitial(t, init_usage(t.entity_usages, name, EntityKind("Variable", "")),
                       name, typ)
    ELSE IF t.scope[name] # NoValue /\ name \in t.initial_pattern_vars
         THEN Unified([t EXCEPT !.mode = Alternative(Append(t.mode.assigned, name))],
                      unify(t.h, t.scope[name].tipo, typ, FALSE))
         ELSE Fail(t, "ExtraVarInAlternativePattern", name)

\* PatternTyper::unify(pattern, tipo, None, false); a failed typer is handed
\* on as it is (the `?` of the callers).
RECURSIVE pattern_unify(_, _, _)
RECURSIVE PatternUnifyEach(_, _, _, _)
PatternUnifyEach(t, elements, i, tipo) ==
    IF i > Len(elements) \/ ~t.ok THEN t
    ELSE PatternUnifyEach(pattern_unify(t, elements[i], tipo), elements, i + 1, tipo)

\* The tail of a list pattern, after its elements: it has the type of the list.
UnifyTail(t, pattern, tipo) ==
    IF pattern.tail = <<>> THEN t ELSE pattern_unify(t, pattern.tail[1], list(tipo))

\* The Pattern::List arm, after get_app_args has returned args.
UnifyList(t, pattern, args) ==
    IF args.some
    THEN UnifyTail(PatternUnifyEach([t EXCEPT !.h = args.h], pattern.els, 1, args.args[1]),
                   pattern, args.args[1])
    ELSE Fail([t EXCEPT !.h = NewUnboundVars(args.h, 1)], "CouldNotUnify", "")

pattern_unify(t, pattern, tipo) ==
    IF ~t.ok THEN t
    ELSE CASE pattern.k = "Discard" -> t
           [] pattern.k = "Var" -> insert_variable(t, pattern.n, tipo)
           [] pattern.k = "Assign" ->
                 pattern_unify(insert_variable(t, pattern.n, tipo), pattern.els[1], tipo)
           [] pattern.k = "Int" -> Unified(t, unify(t.h, tipo, int, FALSE))
           [] pattern.k = "List" ->
                 UnifyList(t, pattern, get_app_args(t.h, tipo, "List", 1))

\* infer_pattern.
infer_pattern(t, pattern, subject_type) == pattern_unify(t, pattern, subject_type)

\* The names in a sequence.
NamesIn(assigned) == {assigned[i] : i \in 1..Len(assigned)}

\* The end of infer_alternative_pattern, typed being the typer after
\* infer_pattern: when the numbers of names differ the assigned names are
\* removed from the initial variables and one left over is reported missing.
CheckAssigned(typed) ==
    IF ~typed.ok THEN typed
    ELSE IF Len(typed.mode.assigned) # Cardinality(typed.initial_pattern_vars)
    THEN Fail([typed EXCEPT !.initial_pattern_vars =
                               typed.initial_pattern_vars \ NamesIn(typed.mode.assigned)],
              "MissingVarInAlternativePattern", "")
    ELSE typed

\* infer_alternative_pattern, up to the choice of the name reported missing.
infer_alternative_pattern(t, pattern, subject_type) ==
    CheckAssigned(infer_pattern([t EXCEPT !.mode = Alternative(<<>>)], pattern, subject_type))

\* The patterns handed to the typer: variables, discards, integers and lists of
\* them, a list also under a name.
ElementPatterns == {PVar(n) : n \in Names} \cup {PDiscard, PInt(0)}

TypedListPatterns ==
    {PList(els, tail) : els \in SeqsUpTo(ElementPatterns, MaxPatternElements),
                        tail \in {<<>>} \cup {<<PVar(n)>> : n \in Names}}

UntypedPatterns ==
    {PVar(n) : n \in Names} \cup {PDiscard} \cup TypedListPatterns
        \cup {PAssign(n, PList(<<e>>, <<>>)) : n \in Names, e \in ElementPatterns}

NoPatternCall ==
    [op |-> "none", ok |-> TRUE, err |-> "", name |-> "", panic |-> FALSE,
     pattern |-> PDiscard, assigned |-> <<>>]

PatternIdle ==
    /\ mode = Initial
    /\ initial_pattern_vars = {}
    /\ pstage = "idle"
    /\ palternatives = 0
    /\ psubject = int
    /\ pinitial = PDiscard
    /\ plast = NoPatternCall

\* The calls of the other models of the environment have not happened.
EnvironmentCallsIdle ==
    /\ ops = 0
    /\ last = NoCall
    /\ resets = <<>>
    /\ opened = <<>>
    /\ sops = 0
    /\ slast = NoScopeCall

\* PatternTyper::new on an environment whose subject is a list of integers or
\* of a type not yet known.
PatternInit ==
    /\ heap = <<Unbound(1)>>
    /\ scope = [n \in Names |-> NoValue]
    /\ entity_usages = <<EmptyUsages>>
    /\ warnings = <<>>
    /\ mode = Initial
    /\ initial_pattern_vars = {}
    /\ pstage = "new"
    /\ palternatives = 0
    /\ psubject \in {list(int), TVar(1)}
    /\ pinitial = PDiscard
    /\ plast = NoPatternCall

\* The state the typer and its environment are left in by a call.
Commit(t) ==
    /\ heap' = t.h
    /\ scope' = t.scope
    /\ entity_usages' = t.entity_usages
    /\ warnings' = t.warnings
    /\ mode' = t.mode
    /\ initial_pattern_vars' = t.initial_pattern_vars

\* infer_pattern(pattern, subject) for the first pattern of a clause.
InferPattern(pattern) ==
    /\ pstage = "new"
    /\ \E t \in {infer_pattern(PatternTyper(heap, scope, entity_usages, warnings, mode,
                                            initial_pattern_vars), pattern, psubject)} :
       /\ Commit(t)
       /\ pstage' = IF t.ok THEN "initial" ELSE "failed"
       /\ plast' = [NoPatternCall EXCEPT !.op = "infer_pattern", !.ok = t.ok, !.err = t.err,
                                         !.name = t.name, !.pattern = pattern]
    /\ pinitial' = pattern
    /\ UNCHANGED <<palternatives, psubject>>
    /\ PatternFrame

\* infer_alternative_pattern(pattern, subject, location) for a further pattern
\* of the clause.  The name reported missing is the first the HashSet yields;
\* with none left the expect panics.
InferAlternativePattern(pattern) ==
    /\ pstage = "initial"
    /\ palternatives < MaxAlternatives
    /\ \E t \in {infer_alternative_pattern(PatternTyper(heap, scope, entity_usages,
                                                        warnings, mode,
                                                        initial_pattern_vars),
                                           pattern, psubject)} :
       LET missing == ~t.ok /\ t.err = "MissingVarInAlternativePattern" IN
       /\ Commit(t)
       /\ pstage' = IF t.ok THEN "initial" ELSE "failed"
       /\ \E name \in IF missing /\ t.initial_pattern_vars # {}
                      THEN t.initial_pattern_vars ELSE {t.name} :
             plast' = [NoPatternCall EXCEPT
                          !.op = "infer_alternative_pattern", !.ok = t.ok,
                          !.err = IF missing /\ t.initial_pattern_vars = {} THEN "" ELSE t.err,
                          !.name = name,
                          !.panic = missing /\ t.initial_pattern_vars = {},
                          !.pattern = pattern, !.assigned = t.mode.assigned]
    /\ palternatives' = palternatives + 1
    /\ UNCHANGED <<psubject, pinitial>>
    /\ PatternFrame

PatternNext ==
    \/ \E pattern \in UntypedPatterns : InferPattern(pattern)
    \/ \E pattern \in UntypedPatterns : InferAlternativePattern(pattern)

(***************************************************************************)
(* The pattern typer: the claim.                                           *)
(***************************************************************************)
\* The variables a pattern binds.
RECURSIVE BoundVars(_)
BoundVars(p) ==
    CASE p.k = "Var" -> {p.n}
      [] p.k = "Assign" -> {p.n} \cup BoundVars(p.els[1])
      [] p.k = "List" ->
            UNION ({BoundVars(p.els[i]) : i \in 1..Len(p.els)}
                      \cup {BoundVars(p.tail[i]) : i \in 1..Len(p.tail)})
      [] OTHER -> {}

\* C10: an alternative pattern is accepted by infer_alternative_pattern only if
\* the set of variables it binds equals the set of variables the initial
\* pattern binds: a variable not bound initially gives
\* ExtraVarInAlternativePattern, and an initial variable the alternative does
\* not bind gives MissingVarInAlternativePattern, also when the alternative
\* binds another variable more than once.  (A type error met earlier in the
\* pattern is reported in their place.)
C10_AlternativeBindsSameVars ==
    plast.op = "infer_alternative_pattern" =>
        LET initial == BoundVars(pinitial)
            alternative == BoundVars(plast.pattern) IN
        /\ ~plast.panic
        /\ plast.ok => alternative = initial
        /\ plast.err = "ExtraVarInAlternativePattern" => plast.name \in alternative \ initial
        /\ plast.err = "MissingVarInAlternativePattern" => plast.name \in initial \ alternative
        /\ alternative # initial =>
              plast.err \in {"ExtraVarInAlternativePattern", "MissingVarInAlternativePattern",
                             "CouldNotUnify"}

(***************************************************************************)
(* The phase-two host loop (untyped-plutus-core/src/tx.rs).                *)
(***************************************************************************)
MaxRedeemers == 3
MaxBudget == 2

\* ExBudget { cpu, mem }.
ExBudget(cpu, mem) == [cpu |-> cpu, mem |-> mem]

\* ExBudget::default(), the budget of a call that names none.
ExBudgetDefault == ExBudget(MaxBudget + 1, MaxBudget)

\* Redeemer: `index` stands for (tag, index, data); ex_units { mem, steps }.
Redeemer(index, mem, steps) == [index |-> index, ex_units |-> [mem |-> mem, steps |-> steps]]

\* The redeemers of a witness set, in transaction order.
Redeemers(n) == [i \in 1..n |-> Redeemer(i, 0, 0)]

\* eval_phase_one: the outcomes of phase-one validation.
eval_phase_one == {"ok", "failed"}

\* eval_redeemer(.., redeemer, .., remaining_budget): the script fails, or it
\* runs within the budget and the redeemer comes back with the cost of the run
\* as its ex_units (EvalResult::cost: initial minus remaining budget).
eval_redeemer(redeemer, budget) ==
    {[ok |-> FALSE, redeemer |-> redeemer]}
        \cup {[ok |-> TRUE, redeemer |-> Redeemer(redeemer.index, mem, steps)] :
                 mem \in 0..budget.mem, steps \in 0..budget.cpu}

\* A variant of the bookkeeping that charges the steps to both counters.
Spend_StepsOnly(budget, redeemer) ==
    ExBudget(budget.cpu - redeemer.ex_units.steps, budget.mem - redeemer.ex_units.steps)

\* remaining_budget.cpu -= ex_units.steps as i64; remaining_budget.mem -=
\* ex_units.mem as i64.  The units are a cost within the budget, so the casts
\* keep the value and the subtractions stay in range.
Spend(budget, redeemer) ==
    ExBudget(budget.cpu - redeemer.ex_units.steps, budget.mem - redeemer.ex_units.mem)

NoResult == [done |-> FALSE, ok |-> FALSE, err |-> "", redeemers |-> <<>>]

Ok(redeemers) == [done |-> TRUE, ok |-> TRUE, err |-> "", redeemers |-> redeemers]

Err(err) == [done |-> TRUE, ok |-> FALSE, err |-> err, redeemers |-> <<>>]

TxIdle ==
    /\ tx_redeemer = [some |-> FALSE, rs |-> <<>>]
    /\ initial_budget = [some |-> FALSE, b |-> ExBudget(0, 0)]
    /\ run_phase_one = FALSE
    /\ hpc = "idle"
    /\ hk = 0
    /\ remaining_budget = ExBudget(0, 0)
    /\ collected_redeemers = <<>>
    /\ phase_one = "skipped"
    /\ hlog = <<>>
    /\ hresult = NoResult

\* A call of eval_phase_two: a transaction with or without redeemers, with or
\* without a budget, phase one asked for or not.
TxInit ==
    /\ tx_redeemer \in {[some |-> FALSE, rs |-> <<>>]}
                          \cup {[some |-> TRUE, rs |-> Redeemers(n)] : n \in 0..MaxRedeemers}
    /\ initial_budget \in {[some |-> FALSE, b |-> ExBudget(0, 0)]}
                             \cup {[some |-> TRUE, b |-> ExBudget(c, m)] :
                                      c \in 0..MaxBudget, m \in 0..MaxBudget}
    /\ run_phase_one \in BOOLEAN
    /\ hpc = "call"
    /\ hk = 0
    /\ remaining_budget = ExBudget(0, 0)
    /\ collected_redeemers = <<>>
    /\ phase_one = "skipped"
    /\ hlog = <<>>
    /\ hresult = NoResult

\* A variant of the entry of eval_phase_two that looks at the redeemers before
\* it looks at the outcome of phase one.
EvalPhaseTwo_RedeemersFirst ==
    /\ hpc = "call"
    /\ \E outcome \in IF run_phase_one THEN eval_phase_one ELSE {"skipped"} :
          /\ phase_one' = outcome
          /\ IF ~tx_redeemer.some
             THEN /\ hresult' = Ok(<<>>)
                  /\ hpc' = "return"
                  /\ UNCHANGED <<hk, remaining_budget, collected_redeemers>>
             ELSE IF outcome = "failed"
             THEN /\ hresult' = Err("PhaseOne")
                  /\ hpc' = "return"
                  /\ UNCHANGED <<hk, remaining_budget, collected_redeemers>>
             ELSE /\ collected_redeemers' = <<>>
                  /\ remaining_budget' =
                        IF initial_budget.some THEN initial_budget.b ELSE ExBudgetDefault
                  /\ hk' = 1
                  /\ hpc' = "loop"
                  /\ UNCHANGED hresult
    /\ UNCHANGED <<tx_redeemer, initial_budget, run_phase_one, hlog>>
    /\ TxFrame

\* eval_phase_two up to the loop: phase one if asked for, its error returned
\* at once; then no redeemers give the empty list, and redeemers start the loop
\* with the initial budget or the default one.
EvalPhaseTwo ==
    /\ hpc = "call"
    /\ \E outcome \in IF run_phase_one THEN eval_phase_one ELSE {"skipped"} :
          /\ phase_one' = outcome
          /\ IF outcome = "failed"
             THEN /\ hresult' = Err("PhaseOne")
                  /\ hpc' = "return"
                  /\ UNCHANGED <<hk, remaining_budget, collected_redeemers>>
             ELSE IF ~tx_redeemer.some
             THEN /\ hresult' = Ok(<<>>)
                  /\ hpc' = "return"
                  /\ UNCHANGED <<hk, remaining_budget, collected_redeemers>>
             ELSE /\ collected_redeemers' = <<>>
                  /\ remaining_budget' =
                        IF initial_budget.some THEN initial_budget.b ELSE ExBudgetDefault
                  /\ hk' = 1
                  /\ hpc' = "loop"
                  /\ UNCHANGED hresult
    /\ UNCHANGED <<tx_redeemer, initial_budget, run_phase_one, hlog>>
    /\ TxFrame

\* with_redeemer(redeemer) for the next redeemer.
WithRedeemer ==
    /\ hpc = "loop"
    /\ hk <= Len(tx_redeemer.rs)
    /\ hlog' = Append(hlog, [ev |-> "with_redeemer", k |-> hk,
                             budget |-> remaining_budget, ok |-> TRUE])
    /\ hpc' = "eval"
    /\ UNCHANGED <<tx_redeemer, initial_budget, run_phase_one, hk, remaining_budget,
                   collected_redeemers, phase_one, hresult>>
    /\ TxFrame

\* A variant of the loop body that goes on with the next redeemer when one
\* fails.
EvalRedeemer_SkipsFailed ==
    /\ hpc = "eval"
    /\ \E res \in eval_redeemer(tx_redeemer.rs[hk], remaining_budget) :
          /\ hlog' = Append(hlog, [ev |-> "eval_redeemer", k |-> hk,
                                   budget |-> remaining_budget, ok |-> res.ok])
          /\ IF res.ok
             THEN /\ remaining_budget' = Spend(remaining_budget, res.redeemer)
                  /\ collected_redeemers' = Append(collected_redeemers, res.redeemer)
             ELSE UNCHANGED <<remaining_budget, collected_redeemers>>
          /\ hk' = hk + 1
          /\ hpc' = "loop"
          /\ UNCHANGED hresult
    /\ UNCHANGED <<tx_redeemer, initial_budget, run_phase_one, phase_one>>
    /\ TxFrame

\* The rest of the loop body: eval_redeemer with the remaining budget; its
\* error ends the call, its redeemer is charged and collected.
EvalRedeemer ==
    /\ hpc = "eval"
    /\ \E res \in eval_redeemer(tx_redeemer.rs[hk], remaining_budget) :
          /\ hlog' = Append(hlog, [ev |-> "eval_redeemer", k |-> hk,
                                   budget |-> remaining_budget, ok |-> res.ok])
          /\ IF res.ok
             THEN /\ remaining_budget' = Spend(remaining_budget, res.redeemer)
                  /\ collected_redeemers' = Append(collected_redeemers, res.redeemer)
                  /\ hk' = hk + 1
                  /\ hpc' = "loop"
                  /\ UNCHANGED hresult
             ELSE /\ hresult' = Err("Redeemer")
                  /\ hpc' = "return"
                  /\ UNCHANGED <<remaining_budget, collected_redeemers, hk>>
    /\ UNCHANGED <<tx_redeemer, initial_budget, run_phase_one, phase_one>>
    /\ TxFrame

\* Ok(collected_redeemers) after the last redeemer.
ReturnCollected ==
    /\ hpc = "loop"
    /\ hk > Len(tx_redeemer.rs)
    /\ hresult' = Ok(collected_redeemers)
    /\ hpc' = "return"
    /\ UNCHANGED <<tx_redeemer, initial_budget, run_phase_one, hk, remaining_budget,
                   collected_redeemers, phase_one, hlog>>
    /\ TxFrame

TxNext ==
    \/ EvalPhaseTwo
    \/ WithRedeemer
    \/ EvalRedeemer
    \/ ReturnCollected

(***************************************************************************)
(* The phase-two host loop: the claims.                                    *)
(***************************************************************************)
\* The budget the call starts from.
StartBudget == IF initial_budget.some THEN initial_budget.b ELSE ExBudgetDefault

RECURSIVE SumSteps(_, _)
SumSteps(redeemers, n) ==
    IF n = 0 THEN 0 ELSE SumSteps(redeemers, n - 1) + redeemers[n].ex_units.steps

RECURSIVE SumMem(_, _)
SumMem(redeemers, n) ==
    IF n = 0 THEN 0 ELSE SumMem(redeemers, n - 1) + redeemers[n].ex_units.mem

\* C11: the budget handed to the evaluation of the k-th redeemer is the initial
\* budget (ExBudget::default() when none is given) minus the sum of the
\* ex_units returned for the redeemers before it, steps from cpu and mem from
\* mem; the budget is shared and never reset.
C11_SharedBudget ==
    \A i \in 1..Len(hlog) :
        hlog[i].ev = "eval_redeemer" =>
            /\ hlog[i].k - 1 <= Len(collected_redeemers)
            /\ hlog[i].budget.cpu
                  = StartBudget.cpu - SumSteps(collected_redeemers, hlog[i].k - 1)
            /\ hlog[i].budget.mem
                  = StartBudget.mem - SumMem(collected_redeemers, hlog[i].k - 1)

\* A third redeemer has been evaluated after two that cost steps and memory in
\* different amounts.
C11_Witness ==
    /\ \E i \in 1..Len(hlog) : hlog[i].ev = "eval_redeemer" /\ hlog[i].k = 3
    /\ Len(collected_redeemers) >= 2
    /\ collected_redeemers[1].ex_units.steps > 0
    /\ collected_redeemers[2].ex_units.mem > 0
    /\ collected_redeemers[1].ex_units.steps # collected_redeemers[1].ex_units.mem

\* C12: redeemers are processed in transaction order.  The callback of
\* redeemer k is invoked exactly once, after the evaluation of redeemer k-1
\* succeeded and before redeemer k is evaluated; when an evaluation fails that
\* error is the result, nothing happens for a later redeemer and no partial
\* list is returned; on success the result has one redeemer per input redeemer
\* in the same order.
C12_TransactionOrder ==
    /\ \A i \in 1..Len(hlog) :
          /\ hlog[i].k = (i + 1) \div 2
          /\ hlog[i].ev = IF i % 2 = 1 THEN "with_redeemer" ELSE "eval_redeemer"
          /\ i < Len(hlog) => hlog[i].ok
    /\ (hlog # <<>> /\ ~hlog[Len(hlog)].ok) =>
          /\ hresult = Err("Redeemer")
          /\ hpc = "return"
    /\ (hresult.done /\ hresult.ok /\ tx_redeemer.some) =>
          /\ Len(hresult.redeemers) = Len(tx_redeemer.rs)
          /\ Len(hlog) = 2 * Len(tx_redeemer.rs)
          /\ \A i \in 1..Len(tx_redeemer.rs) :
                hresult.redeemers[i].index = tx_redeemer.rs[i].index

\* The second of three redeemers has failed after the first succeeded.
C12_Witness ==
    /\ Len(tx_redeemer.rs) = 3
    /\ Len(hlog) = 4
    /\ ~hlog[4].ok
    /\ hresult.done

\* C13: a transaction that carries no redeemers gets an empty redeemer list,
\* for every value of run_phase_one and every outcome of phase-one validation.
C13_NoRedeemersEmpty ==
    (hresult.done /\ ~tx_redeemer.some) => hresult = Ok(<<>>)

\* C13, as the code has it: phase one, when asked for, comes first and its
\* failure is the result; a transaction that carries no redeemers gets an
\* empty redeemer list when phase one is not run or succeeds.
C13_NoRedeemersEmptyAfterPhaseOne ==
    (hresult.done /\ ~tx_redeemer.some) =>
        /\ phase_one = "failed" => hresult = Err("PhaseOne")
        /\ phase_one # "failed" => hresult = Ok(<<>>)
        /\ ~run_phase_one => phase_one = "skipped"
        /\ hlog = <<>>

\* A call without redeemers has returned after phase one failed.
C13_Witness ==
    /\ hresult.done
    /\ ~tx_redeemer.some
    /\ phase_one = "failed"

(***************************************************************************)
(* apply_params_to_script (untyped-plutus-core/src/tx.rs) and              *)
(* Program::apply_data (untyped_plutus_core/src/ast.rs).                   *)
(***************************************************************************)
MaxParams == 2

\* PlutusData values.
PlutusDatas == {"d1", "d2"}

\* Term::Apply { function, argument }, Term::Constant(Constant::Data(_)) and
\* the term of a script as it was decoded.
Apply(function, argument) == [k |-> "Apply", function |-> function, argument |-> argument]

ConstantData(plutus_data) == [k |-> "Constant", data |-> plutus_data]

ScriptTerms == {[k |-> "Var", i |-> 1], [k |-> "Delay", i |-> 0]}

\* Program { version, term }.
Program(version, term) == [version |-> version, term |-> term]

\* Program::apply_data.
apply_data(program, plutus_data) ==
    Program(program.version, Apply(program.term, ConstantData(plutus_data)))

\* for param in params { program = program.apply_data(param) }, from param i.
RECURSIVE ApplyAll(_, _, _)
ApplyAll(program, params, i) ==
    IF i > Len(params) THEN program
    ELSE ApplyAll(apply_data(program, params[i]), params, i + 1)

\* What bytes are to PlutusData::decode_fragment: no CBOR of a PlutusData, the
\* CBOR of a PlutusData that is no array, or the CBOR of an array.
ParamsBytes ==
    {[k |-> "Malformed", data |-> <<>>]}
        \cup {[k |-> "Other", data |-> <<d>>] : d \in PlutusDatas}
        \cup {[k |-> "Array", data |-> ds] : ds \in SeqsUpTo(PlutusDatas, MaxParams)}

\* What bytes are to Program::from_cbor: no program, or a program.
ScriptBytes ==
    {[k |-> "Malformed", program |-> <<>>]}
        \cup {[k |-> "Program", program |-> <<Program(v, t)>>] :
                 v \in {<<1, 0, 0>>, <<2, 0, 0>>}, t \in ScriptTerms}

\* Program::to_cbor: the bytes of the program, or a failure of the encoder.
to_cbor(program) ==
    {[ok |-> TRUE, bytes |-> <<program>>], [ok |-> FALSE, bytes |-> <<>>]}

NoApply == [done |-> FALSE, outcome |-> "", err |-> "", bytes |-> <<>>]

Aborted == [done |-> TRUE, outcome |-> "panic", err |-> "", bytes |-> <<>>]

Failed(err) == [done |-> TRUE, outcome |-> "Err", err |-> err, bytes |-> <<>>]

Applied(bytes) == [done |-> TRUE, outcome |-> "Ok", err |-> "", bytes |-> bytes]

ApplyIdle ==
    /\ params_bytes = [k |-> "Malformed", data |-> <<>>]
    /\ plutus_script_bytes = [k |-> "Malformed", program |-> <<>>]
    /\ encoder_fails = FALSE
    /\ aresult = NoApply

ApplyInit ==
    /\ params_bytes \in ParamsBytes
    /\ plutus_script_bytes \in ScriptBytes
    /\ encoder_fails \in BOOLEAN
    /\ aresult = NoApply

\* apply_params_to_script: decode_fragment(..).unwrap() and unreachable!()
\* abort on params that are no array; the error of from_cbor is returned as it
\* is; the error of to_cbor becomes ApplyParamsError.
ApplyParamsToScript ==
    /\ ~aresult.done
    /\ aresult' =
          IF params_bytes.k = "Malformed" THEN Aborted
          ELSE IF params_bytes.k # "Array" THEN Aborted
          ELSE IF plutus_script_bytes.k = "Malformed" THEN Failed("FromCbor")
          ELSE LET program == ApplyAll(plutus_script_bytes.program[1], params_bytes.data, 1)
                   res == CHOOSE r \in to_cbor(program) : r.ok = ~encoder_fails IN
               IF res.ok THEN Applied(res.bytes) ELSE Failed("ApplyParamsError")
    /\ UNCHANGED <<params_bytes, plutus_script_bytes, encoder_fails>>
    /\ ApplyFrame

ApplyNext == ApplyParamsToScript

(***************************************************************************)
(* apply_params_to_script: the claim.                                      *)
(***************************************************************************)
\* The term of `term` applied to params[1..n], left to right.
RECURSIVE AppliedTo(_, _, _)
AppliedTo(term, params, n) ==
    IF n = 0 THEN term
    ELSE Apply(AppliedTo(term, params, n - 1), ConstantData(params[n]))

\* C14: apply_params_to_script reports every failure as an error value: params
\* bytes that do not decode as PlutusData, params that decode to something
\* other than an array, and re-encoding failures all return
\* Err(ApplyParamsError), and the function never aborts; on success the
\* parameters are applied left to right, one Apply node per parameter, and the
\* program version is unchanged.
C14_FailuresAreErrors ==
    aresult.done =>
        /\ aresult.outcome # "panic"
        /\ params_bytes.k # "Array" => aresult = Failed("ApplyParamsError")
        /\ (params_bytes.k = "Array" /\ plutus_script_bytes.k = "Program" /\ encoder_fails)
              => aresult = Failed("ApplyParamsError")
        /\ aresult.outcome = "Ok" =>
              LET script == plutus_script_bytes.program[1] IN
              aresult.bytes = <<Program(script.version,
                                        AppliedTo(script.term, params_bytes.data,
                                                  Len(params_bytes.data)))>>

(***************************************************************************)
(* The Flat encoder (flat/src/encode/encoder.rs).                          *)
(***************************************************************************)
MaxEncoderOps == 3

\* arr.chunks(255) of write_blk.
ChunkSize == 255

\* u8 arithmetic: | on two bytes, << and >> with the bits shifted out dropped.
RECURSIVE BitOr(_, _)
BitOr(a, b) ==
    IF a = 0 THEN b
    ELSE IF b = 0 THEN a
    ELSE (IF a % 2 = 1 \/ b % 2 = 1 THEN 1 ELSE 0) + 2 * BitOr(a \div 2, b \div 2)

Shl(val, n) == (val * Pow2(n)) % 256

Shr(val, n) == val \div Pow2(n)

\* Encoder { buffer, used_bits, current_byte }.
Encoder(buffer, bits_used, byte) ==
    [buffer |-> buffer, used_bits |-> bits_used, current_byte |-> byte]

\* Encoder::new.
NewEncoder == Encoder(<<>>, 0, 0)

next_word(e) == Encoder(Append(e.buffer, e.current_byte), 0, 0)

zero(e) == IF e.used_bits = 7 THEN next_word(e) ELSE [e EXCEPT !.used_bits = e.used_bits + 1]

one(e) ==
    IF e.used_bits = 7
    THEN next_word([e EXCEPT !.current_byte = BitOr(e.current_byte, 1)])
    ELSE [e EXCEPT !.current_byte = BitOr(e.current_byte, Shr(128, e.used_bits)),
                   !.used_bits = e.used_bits + 1]

\* A variant of bits that starts the next byte with the bits it has already
\* written.
bits_KeepsWrittenBits(e, num_bits, val) ==
    LET used == e.used_bits + num_bits - 8 IN
    IF used <= 0 THEN next_word([e EXCEPT !.current_byte = BitOr(e.current_byte, val)])
    ELSE [next_word([e EXCEPT !.current_byte = BitOr(e.current_byte, Shr(val, used))])
             EXCEPT !.current_byte = Shr(val, used), !.used_bits = used]

\* Encoder::bits(num_bits, val).
bits(e, num_bits, val) ==
    CASE num_bits = 1 /\ val = 0 -> zero(e)
      [] num_bits = 1 /\ val = 1 -> one(e)
      [] num_bits = 2 /\ val = 0 -> zero(zero(e))
      [] num_bits = 2 /\ val = 1 -> one(zero(e))
      [] num_bits = 2 /\ val = 2 -> zero(one(e))
      [] num_bits = 2 /\ val = 3 -> one(one(e))
      [] OTHER ->
            (LET unused_bits == 8 - (e.used_bits + num_bits) IN
             IF unused_bits > 0
             THEN [e EXCEPT !.used_bits = e.used_bits + num_bits,
                            !.current_byte = BitOr(e.current_byte, Shl(val, unused_bits))]
             ELSE IF unused_bits = 0
             THEN next_word([e EXCEPT !.current_byte = BitOr(e.current_byte, val)])
             ELSE LET used == -unused_bits IN
                  [next_word([e EXCEPT !.current_byte = BitOr(e.current_byte, Shr(val, used))])
                      EXCEPT !.current_byte = Shl(val, 8 - used), !.used_bits = used])

\* The loop of word and big_word on what is left of the number.
RECURSIVE WordLoop(_, _)
WordLoop(e, d) ==
    LET rest == d \div 128
        w == IF rest # 0 THEN BitOr(d % 128, 128) ELSE d % 128 IN
    IF rest = 0 THEN bits(e, 8, w) ELSE WordLoop(bits(e, 8, w), rest)

\* Encoder::word(c: usize).
word(e, c) == WordLoop(e, c)

\* Encoder::big_word(c: u128).
big_word(e, c) == WordLoop(e, c)

\* A variant of filler that pushes the padded byte and keeps used_bits.
filler_KeepsUsedBits(e) ==
    [e EXCEPT !.buffer = Append(e.buffer, BitOr(e.current_byte, 1)), !.current_byte = 0]

\* Encoder::filler.
filler(e) == next_word([e EXCEPT !.current_byte = BitOr(e.current_byte, 1)])

\* A variant of write_blk that cuts chunks of 256 bytes, whose length does not
\* fit the length byte.
RECURSIVE WriteChunks_Of256(_, _, _)
WriteChunks_Of256(buffer, arr, from) ==
    IF from > Len(arr) THEN buffer
    ELSE LET to == IF from + 255 < Len(arr) THEN from + 255 ELSE Len(arr) IN
         WriteChunks_Of256(buffer \o <<(to - from + 1) % 256>> \o SubSeq(arr, from, to),
                           arr, to + 1)

\* The loop of write_blk over arr.chunks(255): the length of the chunk as one
\* byte, then the chunk.
RECURSIVE WriteChunks(_, _, _)
WriteChunks(buffer, arr, from) ==
    IF from > Len(arr) THEN buffer
    ELSE LET to == IF from + ChunkSize - 1 < Len(arr) THEN from + ChunkSize - 1
                    ELSE Len(arr) IN
         WriteChunks(buffer \o <<(to - from + 1) % 256>> \o SubSeq(arr, from, to),
                     arr, to + 1)

\* Encoder::write_blk.
write_blk(e, arr) == [e EXCEPT !.buffer = Append(WriteChunks(e.buffer, arr, 1), 0)]

\* Encoder::byte_array: Err(BufferNotByteAligned) off a byte boundary.
byte_array(e, arr) ==
    IF e.used_bits # 0 THEN [ok |-> FALSE, e |-> e] ELSE [ok |-> TRUE, e |-> write_blk(e, arr)]

\* Encoder::bytes.
bytes(e, x) == byte_array(filler(e), x)

\* The numbers and the byte arrays handed to the encoder.
Ramp(n) == [i \in 1..n |-> i % 256]

ByteArrays ==
    {<<>>, <<1, 2, 3>>, Ramp(1), Ramp(ChunkSize - 1), Ramp(ChunkSize), Ramp(ChunkSize + 1),
     Ramp(2 * ChunkSize), Ramp(2 * ChunkSize + 1)}

Words == {0, 1, 127, 128, 270, 16383, 16384, 2097152, 268435456}

NoEncoderCall ==
    [op |-> "none", n |-> 0, x |-> <<>>, ok |-> TRUE, before |-> NewEncoder]

EncoderIdle ==
    /\ encoder = NewEncoder
    /\ eops = MaxEncoderOps
    /\ elast = NoEncoderCall

EncoderInit ==
    /\ encoder = NewEncoder
    /\ eops = 0
    /\ elast = NoEncoderCall

\* Encoder::bool(x): one bit.
Bool(x) ==
    /\ eops < MaxEncoderOps
    /\ encoder' = IF x THEN one(encoder) ELSE zero(encoder)
    /\ eops' = eops + 1
    /\ elast' = [NoEncoderCall EXCEPT !.op = "bool", !.n = IF x THEN 1 ELSE 0,
                                      !.before = encoder]
    /\ EncoderFrame

Word(c) ==
    /\ eops < MaxEncoderOps
    /\ encoder' = word(encoder, c)
    /\ eops' = eops + 1
    /\ elast' = [NoEncoderCall EXCEPT !.op = "word", !.n = c, !.before = encoder]
    /\ EncoderFrame

BigWord(c) ==
    /\ eops < MaxEncoderOps
    /\ encoder' = big_word(encoder, c)
    /\ eops' = eops + 1
    /\ elast' = [NoEncoderCall EXCEPT !.op = "big_word", !.n = c, !.before = encoder]
    /\ EncoderFrame

Bytes(x) ==
    /\ eops < MaxEncoderOps
    /\ \E res \in {bytes(encoder, x)} :
          /\ encoder' = res.e
          /\ elast' = [NoEncoderCall EXCEPT !.op = "bytes", !.x = x, !.ok = res.ok,
                                            !.before = encoder]
    /\ eops' = eops + 1
    /\ EncoderFrame

EncoderNext ==
    \/ \E x \in BOOLEAN : Bool(x)
    \/ \E c \in Words : Word(c)
    \/ \E c \in Words : BigWord(c)
    \/ \E x \in ByteArrays : Bytes(x)

\* The bytes appended to the buffer by the call that has just returned.
Appended == SubSeq(encoder.buffer, Len(elast.before.buffer) + 1, Len(encoder.buffer))

KeepsBuffer ==
    /\ Len(encoder.buffer) >= Len(elast.before.buffer)
    /\ SubSeq(encoder.buffer, 1, Len(elast.before.buffer)) = elast.before.buffer

\* The bits of a sequence of bytes, most significant bit of each byte first.
BitsOfBytes(bs) ==
    [i \in 1..(8 * Len(bs)) |-> (bs[((i - 1) \div 8) + 1] \div Pow2(7 - ((i - 1) % 8))) % 2]

\* The bits an encoder holds in its current byte.
PendingBits(e) == SubSeq(BitsOfBytes(<<e.current_byte>>), 1, e.used_bits)

\* The current byte padded to the byte boundary with zero bits and a final 1 bit.
PaddedByte(e) ==
    LET written == PendingBits(e) IN
    [i \in 1..8 |-> IF i <= Len(written) THEN written[i] ELSE IF i = 8 THEN 1 ELSE 0]

\* A block read back as chunks: each a length byte followed by that many
\* bytes, up to the terminating 0x00. None when the block does not read so.
RECURSIVE ReadChunks(_, _, _)
ReadChunks(block, at, chunks) ==
    IF at > Len(block) THEN [ok |-> FALSE, chunks |-> chunks]
    ELSE IF block[at] = 0 THEN [ok |-> at = Len(block), chunks |-> chunks]
    ELSE IF at + block[at] > Len(block) THEN [ok |-> FALSE, chunks |-> chunks]
    ELSE ReadChunks(block, at + block[at] + 1,
                    Append(chunks, SubSeq(block, at + 1, at + block[at])))

RECURSIVE Concat(_)
Concat(chunks) == IF chunks = <<>> THEN <<>> ELSE Head(chunks) \o Concat(Tail(chunks))

\* C15: Encoder::bytes(x) succeeds on every encoder state; it appends the
\* current byte padded with zero bits and a final 1 bit (0x01 when aligned),
\* then x as chunks of 1..255 bytes, each after its length byte, of which only
\* the last may be shorter than 255 and which concatenate to x, then one 0x00
\* (the empty array is just 0x00), and leaves the encoder byte-aligned; on a
\* fresh encoder bytes([1,2,3]) gives [0x01, 0x03, 0x01, 0x02, 0x03, 0x00].
C15_BytesFraming ==
    elast.op = "bytes" =>
        /\ elast.ok
        /\ KeepsBuffer
        /\ Len(Appended) >= 2
        /\ BitsOfBytes(<<Appended[1]>>) = PaddedByte(elast.before)
        /\ (elast.before.used_bits = 0 => Appended[1] = 1)
        /\ encoder.used_bits = 0 /\ encoder.current_byte = 0
        /\ LET read == ReadChunks(Tail(Appended), 1, <<>>) IN
              /\ read.ok
              /\ Concat(read.chunks) = elast.x
              /\ \A i \in 1..Len(read.chunks) :
                    /\ Len(read.chunks[i]) \in 1..255
                    /\ (i < Len(read.chunks) => Len(read.chunks[i]) = 255)
        /\ (elast.x = <<>> => Tail(Appended) = <<0>>)
        /\ (elast.x = <<1, 2, 3>> /\ elast.before = NewEncoder
               => encoder.buffer = <<1, 3, 1, 2, 3, 0>>)

\* bytes has framed an array of more than one chunk on an encoder that was
\* not byte-aligned.
C15_Witness ==
    /\ elast.op = "bytes"
    /\ elast.before.used_bits # 0
    /\ Len(elast.x) > 2 * 255
    /\ Len(ReadChunks(Tail(Appended), 1, <<>>).chunks) = 3

\* The 8-bit units of n: its 7-bit groups, least significant first, with the
\* most significant bit of a unit set when more groups follow.
RECURSIVE Power(_, _)
Power(b, k) == IF k = 0 THEN 1 ELSE b * Power(b, k - 1)

UnitCount(n) ==
    CHOOSE k \in 1..5 : /\ (k > 1 => n \div Power(128, k - 1) # 0)
                        /\ (k < 5 => n \div Power(128, k) = 0)

Units(n) ==
    [i \in 1..UnitCount(n) |->
        ((n \div Power(128, i - 1)) % 128) + (IF i < UnitCount(n) THEN 128 ELSE 0)]

byte_unaligned_KeepsByte(e, x) ==
    [e EXCEPT !.buffer = Append(e.buffer, BitOr(e.current_byte, Shr(x, e.used_bits))),
              !.current_byte = x]

\* Encoder::byte_unaligned.
byte_unaligned(e, x) ==
    [e EXCEPT !.buffer = Append(e.buffer, BitOr(e.current_byte, Shr(x, e.used_bits))),
              !.current_byte = Shl(x, 8 - e.used_bits)]

\* Encoder::u8.
u8(e, x) ==
    IF e.used_bits = 0 THEN next_word([e EXCEPT !.current_byte = x]) ELSE byte_unaligned(e, x)

\* Encoder::integer(i: isize), with isize of Bits bits: the word of
\* zigzag::to_usize(i), or the panic of to_usize.
integer(e, checks, i) ==
    LET zz == to_unsigned(Bits, checks, i) IN
    IF zz.panic THEN [ok |-> FALSE, n |-> 0, e |-> e] ELSE [ok |-> TRUE, n |-> zz.v, e |-> word(e, zz.v)]

\* Encoder::char.
char(e, c) == word(e, c)

\* Encoder::string: a 1 bit and the char for each character, then a 0 bit.
RECURSIVE encoder_string(_, _)
encoder_string(e, s) ==
    IF s = <<>> THEN zero(e) ELSE encoder_string(char(one(e), Head(s)), Tail(s))

\* What the calls are given.
U8Values == {0, 1, 128, 170, 255}

BitValues(num_bits) == {0, Pow2(num_bits) - 1, Pow2(num_bits - 1), 170 % Pow2(num_bits)}

CallWords == {0, 127, 270}

Isizes == {MinSigned(Bits) \div 2, 0 - 1, 0, 3}

Chars == {97, 8364}

Texts == {<<>>, <<97>>, <<8364, 97>>}

CallByteArrays == {<<>>, <<1, 2, 3>>, Ramp(ChunkSize), Ramp(ChunkSize + 1)}

EncoderCall(op, n, x, ok) ==
    [NoEncoderCall EXCEPT !.op = op, !.n = n, !.x = x, !.ok = ok, !.before = encoder]

U8(x) ==
    /\ eops < MaxEncoderOps
    /\ encoder' = u8(encoder, x)
    /\ eops' = eops + 1
    /\ elast' = EncoderCall("u8", x, <<>>, TRUE)
    /\ EncoderFrame

\* Encoder::bits(num_bits, val) with 1 <= num_bits <= 8 and val < 2^num_bits.
WriteBits(num_bits, val) ==
    /\ eops < MaxEncoderOps
    /\ encoder' = bits(encoder, num_bits, val)
    /\ eops' = eops + 1
    /\ elast' = EncoderCall("bits", val, <<num_bits>>, TRUE)
    /\ EncoderFrame

\* Encoder::integer(i); a panic of to_usize ends the program.
EncodeInteger(checks, i) ==
    /\ eops < MaxEncoderOps
    /\ encoder' = integer(encoder, checks, i).e
    /\ eops' = IF integer(encoder, checks, i).ok THEN eops + 1 ELSE MaxEncoderOps
    /\ elast' = EncoderCall("integer", integer(encoder, checks, i).n, <<>>,
                            integer(encoder, checks, i).ok)
    /\ EncoderFrame

Char(c) ==
    /\ eops < MaxEncoderOps
    /\ encoder' = char(encoder, c)
    /\ eops' = eops + 1
    /\ elast' = EncoderCall("char", c, <<>>, TRUE)
    /\ EncoderFrame

EncodeString(s) ==
    /\ eops < MaxEncoderOps
    /\ encoder' = encoder_string(encoder, s)
    /\ eops' = eops + 1
    /\ elast' = EncoderCall("string", 0, s, TRUE)
    /\ EncoderFrame

Filler ==
    /\ eops < MaxEncoderOps
    /\ encoder' = filler(encoder)
    /\ eops' = eops + 1
    /\ elast' = EncoderCall("filler", 0, <<>>, TRUE)
    /\ EncoderFrame

\* Encoder::byte_array(arr), called at whatever offset the encoder is.
ByteArray(arr) ==
    /\ eops < MaxEncoderOps
    /\ \E res \in {byte_array(encoder, arr)} :
          /\ encoder' = res.e
          /\ elast' = EncoderCall("byte_array", 0, arr, res.ok)
    /\ eops' = eops + 1
    /\ EncoderFrame

EncoderCallsNext ==
    \/ \E x \in U8Values : U8(x)
    \/ \E x \in BOOLEAN : Bool(x)
    \/ \E num_bits \in 1..8 : \E val \in BitValues(num_bits) : WriteBits(num_bits, val)
    \/ \E c \in CallWords : Word(c)
    \/ \E checks \in BOOLEAN : \E i \in Isizes : EncodeInteger(checks, i)
    \/ \E c \in Chars : Char(c)
    \/ \E s \in Texts : EncodeString(s)
    \/ \E x \in CallByteArrays : Bytes(x)
    \/ Filler
    \/ \E arr \in CallByteArrays : ByteArray(arr)

\* C26: byte_array on an encoder that is not byte aligned returns
\* BufferNotByteAligned and leaves buffer, used_bits and current_byte as they
\* were; bytes never returns that error.
C26_ByteArrayAlignment ==
    /\ (elast.op = "byte_array" /\ elast.before.used_bits # 0) =>
           (~elast.ok /\ encoder = elast.before)
    /\ elast.op = "bytes" => elast.ok

\* byte_array has refused an array on an encoder that holds buffer bytes and
\* pending bits.
C26_Witness ==
    /\ elast.op = "byte_array"
    /\ ~elast.ok
    /\ elast.x # <<>>
    /\ elast.before.used_bits = 3
    /\ elast.before.buffer # <<>>
    /\ elast.before.current_byte # 0

\* The bits a call writes: the low num_bits bits of a value, a block of
\* chunks, the bits of a string, the padding of the filler.
LowBits(num_bits, val) == [i \in 1..num_bits |-> (val \div Pow2(num_bits - i)) % 2]

RECURSIVE Framed(_)
Framed(arr) ==
    IF arr = <<>> THEN <<0>>
    ELSE LET n == IF Len(arr) < 255 THEN Len(arr) ELSE 255 IN
         <<n>> \o SubSeq(arr, 1, n) \o Framed(SubSeq(arr, n + 1, Len(arr)))

RECURSIVE StringBits(_)
StringBits(s) ==
    IF s = <<>> THEN <<0>> ELSE <<1>> \o BitsOfBytes(Units(Head(s))) \o StringBits(Tail(s))

Padding(bits_used) == [i \in 1..(8 - bits_used) |-> IF i = 8 - bits_used THEN 1 ELSE 0]

CallBits(call) ==
    CASE call.op = "u8" -> LowBits(8, call.n)
      [] call.op = "bool" -> <<call.n>>
      [] call.op = "bits" -> LowBits(call.x[1], call.n)
      [] call.op \in {"word", "integer", "char"} -> BitsOfBytes(Units(call.n))
      [] call.op = "string" -> StringBits(call.x)
      [] call.op = "bytes" -> Padding(call.before.used_bits) \o BitsOfBytes(Framed(call.x))
      [] call.op = "filler" -> Padding(call.before.used_bits)
      [] call.op = "byte_array" -> BitsOfBytes(Framed(call.x))
      [] OTHER -> <<>>

\* C27: after any sequence of u8, bool, bits, word, integer, char, string,
\* bytes and filler calls on a new Encoder, used_bits is in 0..7, the low
\* 8 - used_bits bits of current_byte are zero, and the bits written are the
\* buffer bytes followed by the top used_bits bits of current_byte, most
\* significant bit first, in call order: each call keeps the bits there were
\* and puts its own after them.
C27_EncoderState ==
    /\ encoder.used_bits \in 0..7
    /\ encoder.current_byte \in 0..255
    /\ encoder.current_byte % Pow2(8 - encoder.used_bits) = 0
    /\ (elast.op # "none" /\ elast.ok) =>
          /\ KeepsBuffer
          /\ Len(BitsOfBytes(Appended) \o PendingBits(encoder))
                = Len(PendingBits(elast.before) \o CallBits(elast))
          /\ BitsOfBytes(Appended) \o PendingBits(encoder)
                = PendingBits(elast.before) \o CallBits(elast)

\* u8 has written the byte 0xAA across a byte boundary, six bits into a
\* byte, after two other calls that filled at least two bytes.
C27_Witness ==
    /\ eops = 3
    /\ elast.op = "u8"
    /\ elast.n = 170
    /\ elast.before.used_bits = 6
    /\ Len(encoder.buffer) >= 3
    /\ encoder.current_byte = 168
    /\ encoder.used_bits = 6

(***************************************************************************)
(* Generalisation and instantiation (env.rs generalise, instantiate).      *)
(* The cells are a sequence of TypeVar; a Var holds the index of its cell. *)
(***************************************************************************)
MaxTypeVars == 3

\* generalise(t, ctx_level): the cells with the Generic cells it creates, and
\* the generalised type.
RECURSIVE generalise(_, _, _)
RECURSIVE GeneraliseEach(_, _, _)
generalise(h, t, ctx_level) ==
    CASE t.k = "Var" ->
            (CASE h[t.c].k = "Unbound" ->
                    [h |-> Append(h, Generic(h[t.c].id)), t |-> TVar(Len(h) + 1)]
               [] h[t.c].k = "Link" -> generalise(h, h[t.c].t[1], ctx_level)
               [] OTHER -> [h |-> h, t |-> t])
      [] t.k = "App" ->
            (LET args == GeneraliseEach(h, t.a, ctx_level) IN
             [h |-> args.h, t |-> TApp(t.n, args.ts)])
      [] t.k = "Fn" ->
            (LET args == GeneraliseEach(h, t.a, ctx_level)
                 ret == generalise(args.h, t.r[1], ctx_level) IN
             [h |-> ret.h, t |-> TFn(args.ts, ret.t)])
      [] OTHER ->
            (LET elems == GeneraliseEach(h, t.a, ctx_level) IN
             [h |-> elems.h, t |-> TTuple(elems.ts)])

GeneraliseEach(h, ts, ctx_level) ==
    IF ts = <<>> THEN [h |-> h, ts |-> <<>>]
    ELSE LET first == generalise(h, Head(ts), ctx_level)
             rest == GeneraliseEach(first.h, Tail(ts), ctx_level) IN
         [h |-> rest.h, ts |-> <<first.t>> \o rest.ts]

\* Hydrator::is_rigid: the ids the hydrator holds as rigid.
is_rigid(hydrator, id) == id \in hydrator

\* The environment of instantiate: the cells, the id generator and the memo
\* table `ids`.
Instantiating(h, uid, ids) == [h |-> h, uid |-> uid, ids |-> ids]

\* A variant of the Generic arm that does not record the fresh variable.
InstantiateGeneric_NoMemo(st, t, id, hydrator) ==
    IF id \in DOMAIN st.ids THEN [st |-> st, t |-> st.ids[id]]
    ELSE IF ~is_rigid(hydrator, id)
    THEN [st |-> Instantiating(Append(st.h, Unbound(st.uid)), st.uid + 1, st.ids),
          t |-> TVar(Len(st.h) + 1)]
    ELSE [st |-> st, t |-> t]

\* The Generic arm of instantiate: the memoised type, or a new unbound
\* variable that is memoised, or the variable itself when the id is rigid.
InstantiateGeneric(st, t, id, hydrator) ==
    IF id \in DOMAIN st.ids THEN [st |-> st, t |-> st.ids[id]]
    ELSE IF ~is_rigid(hydrator, id)
    THEN [st |-> Instantiating(Append(st.h, Unbound(st.uid)), st.uid + 1,
                               (id :> TVar(Len(st.h) + 1)) @@ st.ids),
          t |-> TVar(Len(st.h) + 1)]
    ELSE [st |-> st, t |-> t]

\* Environment::instantiate(t, ids, hydrator).
RECURSIVE instantiate(_, _, _)
RECURSIVE InstantiateEach(_, _, _)
instantiate(st, t, hydrator) ==
    CASE t.k = "App" ->
            (LET args == InstantiateEach(st, t.a, hydrator) IN
             [st |-> args.st, t |-> TApp(t.n, args.ts)])
      [] t.k = "Var" ->
            (CASE st.h[t.c].k = "Link" -> instantiate(st, st.h[t.c].t[1], hydrator)
               [] st.h[t.c].k = "Unbound" -> [st |-> st, t |-> t]
               [] OTHER -> InstantiateGeneric(st, t, st.h[t.c].id, hydrator))
      [] t.k = "Fn" ->
            (LET args == InstantiateEach(st, t.a, hydrator)
                 ret == instantiate(args.st, t.r[1], hydrator) IN
             [st |-> ret.st, t |-> TFn(args.ts, ret.t)])
      [] OTHER ->
            (LET elems == InstantiateEach(st, t.a, hydrator) IN
             [st |-> elems.st, t |-> TTuple(elems.ts)])

InstantiateEach(st, ts, hydrator) ==
    IF ts = <<>> THEN [st |-> st, ts |-> <<>>]
    ELSE LET first == instantiate(st, Head(ts), hydrator)
             rest == InstantiateEach(first.st, Tail(ts), hydrator) IN
         [st |-> rest.st, ts |-> <<first.t>> \o rest.ts]

\* The cells a run can start from: cell i is the unbound variable of id i, a
\* generic variable of any id, or a link to a type over the cells before it.
LinkTargets(i) ==
    {TVar(c) : c \in 1..(i - 1)} \cup {list(TVar(c)) : c \in 1..(i - 1)}

TypeVarCells ==
    {h \in [1..MaxTypeVars -> {Unbound(i) : i \in 1..MaxTypeVars}
                               \cup {Generic(i) : i \in 1..MaxTypeVars}
                               \cup {Link(t) : t \in LinkTargets(MaxTypeVars)}] :
        \A i \in 1..MaxTypeVars :
            \/ h[i] = Unbound(i)
            \/ h[i].k = "Generic"
            \/ h[i].k = "Link" /\ h[i].t[1] \in LinkTargets(i)}

\* The types handed to generalise.
GeneraliseTypes ==
    LET atoms == {TVar(c) : c \in 1..MaxTypeVars} \cup {int} IN
    atoms \cup {list(a) : a \in atoms}
          \cup {TFn(<<a>>, b) : a \in atoms, b \in atoms}
          \cup {TTuple(<<a, b>>) : a \in atoms, b \in atoms}

NoMemo == <<>>

NoGeneralise ==
    [t |-> int, ctx_level |-> 0, before |-> <<>>, uid |-> 0, generalised |-> int,
     cells |-> <<>>, hydrator |-> {}, ids |-> NoMemo, instantiated |-> int]

GeneraliseIdle ==
    /\ type_vars = <<>>
    /\ uid_gen = 0
    /\ gstage = "done"
    /\ glast = NoGeneralise

GeneraliseInit ==
    /\ type_vars \in TypeVarCells
    /\ uid_gen = MaxTypeVars + 1
    /\ gstage = "new"
    /\ glast = NoGeneralise

\* A caller invokes generalise(t, ctx_level).
Generalise ==
    /\ gstage = "new"
    /\ \E t \in GeneraliseTypes, ctx_level \in {0, 1} :
          \E res \in {generalise(type_vars, t, ctx_level)} :
             /\ type_vars' = res.h
             /\ glast' = [NoGeneralise EXCEPT !.t = t, !.ctx_level = ctx_level,
                                              !.before = type_vars, !.uid = uid_gen,
                                              !.generalised = res.t, !.cells = res.h]
    /\ gstage' = "generalised"
    /\ UNCHANGED uid_gen
    /\ GeneraliseFrame

\* The caller invokes instantiate on the generalised type, with a hydrator
\* and a memo table.
Instantiate ==
    /\ gstage = "generalised"
    /\ \E hydrator \in {{}, {1}}, ids \in {NoMemo, (1 :> int)} :
          \E res \in {instantiate(Instantiating(type_vars, uid_gen, ids),
                                  glast.generalised, hydrator)} :
             /\ type_vars' = res.st.h
             /\ uid_gen' = res.st.uid
             /\ glast' = [glast EXCEPT !.hydrator = hydrator, !.ids = ids,
                                       !.instantiated = res.t]
    /\ gstage' = "instantiated"
    /\ GeneraliseFrame

GeneraliseNext == Generalise \/ Instantiate

\* The variable leaves of t (through links) paired with what stands at the
\* same place in r; Mismatch where t and r differ in shape.
Mismatch == [id |-> 0, was |-> "mismatch", cell |-> 0]

RECURSIVE LeafPairs(_, _, _)
LeafPairs(h, t, r) ==
    IF t.k = "Var" /\ h[t.c].k = "Link" THEN LeafPairs(h, h[t.c].t[1], r)
    ELSE IF t.k = "Var"
    THEN (IF r.k = "Var" THEN {[id |-> h[t.c].id, was |-> h[t.c].k, cell |-> r.c]}
          ELSE {Mismatch})
    ELSE IF r.k # t.k \/ r.n # t.n \/ Len(r.a) # Len(t.a) \/ Len(r.r) # Len(t.r)
    THEN {Mismatch}
    ELSE UNION ({LeafPairs(h, t.a[i], r.a[i]) : i \in 1..Len(t.a)}
                \cup {LeafPairs(h, t.r[i], r.r[i]) : i \in 1..Len(t.r)})

\* The cells of the variables of t, links followed.
RECURSIVE VarCells(_, _)
VarCells(h, t) ==
    IF t.k = "Var"
    THEN {t.c} \cup (IF h[t.c].k = "Link" THEN VarCells(h, h[t.c].t[1]) ELSE {})
    ELSE UNION ({VarCells(h, t.a[i]) : i \in 1..Len(t.a)}
                \cup {VarCells(h, t.r[i]) : i \in 1..Len(t.r)})

\* generalise(t, 0) and then instantiate with no rigid names and an empty
\* memo table have returned.
GeneralisedAndInstantiated ==
    /\ gstage = "instantiated"
    /\ glast.ctx_level = 0
    /\ glast.hydrator = {}
    /\ glast.ids = NoMemo

\* The cell is one instantiate created, holding an unbound variable of an id
\* the generator had not handed out before.
FreshUnbound(cell) ==
    /\ cell > Len(glast.cells)
    /\ type_vars[cell].k = "Unbound"
    /\ type_vars[cell].id >= glast.uid

\* What holds of the result whatever the kinds of the variables of t: the
\* cells that existed are as they were, and the generalised type has no
\* unbound variable and no link.
GeneralisedIsClosed ==
    /\ SubSeq(type_vars, 1, Len(glast.before)) = glast.before
    /\ \A c \in VarCells(glast.cells, glast.generalised) : glast.cells[c].k = "Generic"

\* C17 as stated: the result is t with links collapsed and each Unbound id
\* replaced by a fresh unbound variable, the same for one id and different
\* for different ids (every other part of t, a Generic variable included,
\* as it is in t); generalise(t, 0) has no unbound variable.
C17_UnboundReplaced ==
    GeneralisedAndInstantiated =>
        LET ps == LeafPairs(glast.before, glast.t, glast.instantiated)
            unbound == {p \in ps : p.was = "Unbound"} IN
        /\ GeneralisedIsClosed
        /\ Mismatch \notin ps
        /\ \A p \in unbound : FreshUnbound(p.cell)
        /\ \A p, q \in unbound : (p.id = q.id) <=> (p.cell = q.cell)
        /\ \A p \in ps : p.was = "Generic" => type_vars[p.cell] = Generic(p.id)

\* C17 amended: the result is t with links collapsed and each variable id,
\* Unbound or Generic, replaced by a fresh unbound variable, the same for one
\* id and different for different ids; generalise(t, 0) has no unbound
\* variable.
C17_VariablesReplaced ==
    GeneralisedAndInstantiated =>
        LET ps == LeafPairs(glast.before, glast.t, glast.instantiated) IN
        /\ GeneralisedIsClosed
        /\ Mismatch \notin ps
        /\ \A p \in ps : FreshUnbound(p.cell)
        /\ \A p, q \in ps : (p.id = q.id) <=> (p.cell = q.cell)
        /\ \A p, q \in ps : (p.cell # q.cell) => type_vars[p.cell].id # type_vars[q.cell].id

\* A tuple of a generic variable and, behind a link, the unbound variable of
\* the same id, next to one of another id, has been generalised and
\* instantiated.
C17_Witness ==
    /\ GeneralisedAndInstantiated
    /\ glast.before = <<Unbound(1), Generic(1), Link(TVar(1))>>
    /\ glast.t = TTuple(<<TVar(2), TVar(3)>>)
    /\ glast.instantiated = TTuple(<<TVar(5), TVar(5)>>)

(***************************************************************************)
(* Type registration (env.rs register_types, register_type).               *)
(***************************************************************************)
MaxDefinitions == 3
MaxRehashes == 1

\* Error::DuplicateTypeName, Error::UnknownType, Error::CyclicTypeDefinitions.
NoError == [k |-> "none", name |-> "", location |-> 0, previous_location |-> 0, errors |-> <<>>]

DuplicateTypeName(name, location, previous_location) ==
    [NoError EXCEPT !.k = "DuplicateTypeName", !.name = name, !.location = location,
                    !.previous_location = previous_location]

UnknownType(name, location) ==
    [NoError EXCEPT !.k = "UnknownType", !.name = name, !.location = location]

CyclicTypeDefinitions(errors) == [NoError EXCEPT !.k = "CyclicTypeDefinitions", !.errors = errors]

\* TypeConstructor: where it was defined and in which module ("" is the
\* prelude).
TypeConstructor(location, module) == [location |-> location, module |-> module]

\* Definition::DataType, Definition::TypeAlias (with the type names of its
\* annotation, in the order they are resolved) and the other definitions.
DataType(name, location) ==
    [kind |-> "DataType", name |-> name, location |-> location, annotation |-> <<>>]

TypeAlias(alias, location, annotation) ==
    [kind |-> "TypeAlias", name |-> alias, location |-> location, annotation |-> annotation]

Fn(location) == [kind |-> "Fn", name |-> "f", location |-> location, annotation |-> <<>>]

Remove(map, key) == [k \in (DOMAIN map) \ {key} |-> map[k]]

\* assert_unique_type_name: names.insert(name, location), an error when the
\* name was there.
assert_unique_type_name(known, name, location) ==
    [names |-> (name :> location) @@ known,
     err |-> IF name \in DOMAIN known
             THEN DuplicateTypeName(name, location, known[name])
             ELSE NoError]

\* Environment::insert_type_constructor: module_types.insert(type_name, info),
\* an error when a type of a module other than the prelude was there.
insert_type_constructor(types, type_name, info) ==
    [module_types |-> (type_name :> info) @@ types,
     err |-> IF type_name \in DOMAIN types /\ types[type_name].module # ""
             THEN DuplicateTypeName(type_name, info.location,
                                    types[type_name].location)
             ELSE NoError]

\* Environment::get_type_constructor(None, name, location).
get_type_constructor(types, name, location) ==
    IF name \in DOMAIN types THEN NoError ELSE UnknownType(name, location)

\* Hydrator::type_from_annotation: the error of the first type name of the
\* annotation that is not known.
RECURSIVE type_from_annotation(_, _, _)
type_from_annotation(types, annotation, location) ==
    IF annotation = <<>> THEN NoError
    ELSE IF get_type_constructor(types, Head(annotation), location) # NoError
    THEN get_type_constructor(types, Head(annotation), location)
    ELSE type_from_annotation(types, Tail(annotation), location)

\* The module under check.
CurrentModule == "m"

\* The names map and module_types that register_type works on.
Registry(known, types) == [names |-> known, module_types |-> types]

WithConstructor(env, known, def) ==
    LET inserted == insert_type_constructor(env.module_types, def.name,
                                            TypeConstructor(def.location, CurrentModule)) IN
    [env |-> Registry(known, inserted.module_types), err |-> inserted.err]

\* Environment::register_type.
register_type(env, def) ==
    IF def.kind \notin {"DataType", "TypeAlias"} THEN [env |-> env, err |-> NoError]
    ELSE LET unique == assert_unique_type_name(env.names, def.name, def.location) IN
         IF unique.err # NoError
         THEN [env |-> Registry(unique.names, env.module_types), err |-> unique.err]
         ELSE IF def.kind = "TypeAlias"
                 /\ type_from_annotation(env.module_types, def.annotation, def.location) # NoError
         THEN [env |-> Registry(unique.names, env.module_types),
               err |-> type_from_annotation(env.module_types, def.annotation, def.location)]
         ELSE WithConstructor(env, unique.names, def)

\* A variant that leaves the name of a failed alias in names.
ForgetAlias_KeepsName(known, def) == known

\* `if let Definition::TypeAlias(..) = def { names.remove(alias) }`.
ForgetAlias(known, def) == IF def.kind = "TypeAlias" THEN Remove(known, def.name) ELSE known

\* The loop of register_types over the definitions: the error of the last
\* failure, and the failed definitions in order, each with its error.
RECURSIVE RegisterEach(_, _, _, _)
RECURSIVE RegisterFirst(_, _, _, _, _)
RegisterEach(env, defs, error, failures) ==
    IF defs = <<>> THEN [env |-> env, error |-> error, failures |-> failures]
    ELSE RegisterFirst(env, defs, error, failures, register_type(env, Head(defs)))

RegisterFirst(env, defs, error, failures, res) ==
    IF res.err = NoError THEN RegisterEach(res.env, Tail(defs), error, failures)
    ELSE RegisterEach(Registry(ForgetAlias(res.env.names, Head(defs)), res.env.module_types),
                      Tail(defs), res.err,
                      Append(failures, [def |-> Head(defs), err |-> res.err]))

Remaining(failures) == [i \in 1..Len(failures) |-> failures[i].def]

\* The result when the known types are the same after the pass as before.
Stabilised(e, remaining_definitions) ==
    LET unknown_name == IF e.k = "UnknownType" THEN e.name ELSE ""
        is_cyclic == \E i \in 1..Len(remaining_definitions) :
                        remaining_definitions[i].name = unknown_name
        unknown_types == [i \in 1..Len(remaining_definitions) |->
                             remaining_definitions[i].location] IN
    IF is_cyclic THEN CyclicTypeDefinitions(unknown_types) ELSE e

\* Environment::register_types: the outcomes it can have. It compares the keys
\* of names before and after the pass as vectors in the iteration order of the
\* HashMap: the vectors differ when the sets of keys differ, and can differ
\* for equal sets of two keys or more when an insert of the pass rehashed the
\* map (at most `rehashes` more times). An outcome counts the passes made
\* (rounds) and tells whether a pass was made again over unchanged keys.
RECURSIVE register_types(_, _, _)
RECURSIVE RegisterRest(_, _, _)
register_types(env, defs, rehashes) ==
    RegisterRest(env, RegisterEach(env, defs, NoError, <<>>), rehashes)

RegisterRest(env, pass, rehashes) ==
    IF pass.error = NoError
    THEN {[env |-> pass.env, result |-> NoError, failures |-> <<>>, rounds |-> 1,
           same_keys |-> FALSE]}
    ELSE IF DOMAIN env.names # DOMAIN pass.env.names
    THEN {[out EXCEPT !.rounds = @ + 1] :
             out \in register_types(pass.env, Remaining(pass.failures), rehashes)}
    ELSE {[env |-> pass.env, result |-> Stabilised(pass.error, Remaining(pass.failures)),
           failures |-> pass.failures, rounds |-> 1, same_keys |-> FALSE]}
         \cup (IF rehashes > 0 /\ Cardinality(DOMAIN pass.env.names) >= 2
               THEN {[out EXCEPT !.rounds = @ + 1, !.same_keys = TRUE] :
                        out \in register_types(pass.env, Remaining(pass.failures),
                                               rehashes - 1)}
               ELSE {})

\* The definitions of a module: data types and aliases named A, B or C, the
\* aliases referring to one of them, to the prelude's Int or to the undefined
\* Zzz, and functions; the location of a definition is its place in the module.
HeadNames == {"A", "B", "C"}

Annotations == {<<n>> : n \in HeadNames \cup {"Int", "Zzz"}} \cup {<<"A", "B">>}

DefinitionsAt(location) ==
    {DataType(n, location) : n \in HeadNames}
    \cup {TypeAlias(n, location, a) : n \in HeadNames, a \in Annotations}
    \cup {Fn(location)}

Modules ==
    UNION {{ds \in [1..n -> UNION {DefinitionsAt(i) : i \in 1..n}] :
               \A i \in 1..n : ds[i].location = i} : n \in 0..MaxDefinitions}

Prelude == ("Int" :> TypeConstructor(0, ""))

NoRegistration ==
    [env |-> Registry(<<>>, Prelude), result |-> NoError, failures |-> <<>>, rounds |-> 0,
     same_keys |-> FALSE]

RegisterIdle ==
    /\ definitions = <<>>
    /\ names = <<>>
    /\ module_types = Prelude
    /\ rstage = "done"
    /\ registered = NoRegistration

RegisterInit ==
    /\ definitions \in Modules
    /\ names = <<>>
    /\ module_types = Prelude
    /\ rstage = "new"
    /\ registered = NoRegistration

\* The module checker invokes register_types on the definitions of the module.
RegisterTypes ==
    /\ rstage = "new"
    /\ \E out \in register_types(Registry(names, module_types), definitions, MaxRehashes) :
          /\ names' = out.env.names
          /\ module_types' = out.env.module_types
          /\ registered' = out
    /\ rstage' = "done"
    /\ UNCHANGED definitions
    /\ RegisterFrame

RegisterNext == RegisterTypes

\* The type definitions of the module.
TypeDefinitions ==
    {i \in 1..Len(definitions) : definitions[i].kind \in {"DataType", "TypeAlias"}}

DistinctNames ==
    \A i, j \in TypeDefinitions : definitions[i].name = definitions[j].name => i = j

\* The names a definition refers to.
References(i) == {definitions[i].annotation[k] : k \in 1..Len(definitions[i].annotation)}

Resolvable ==
    \A i \in TypeDefinitions :
        References(i) \subseteq (DOMAIN Prelude) \cup {definitions[j].name : j \in TypeDefinitions}

\* The definitions reached from i by following references n times or fewer.
RECURSIVE ReachedFrom(_, _)
ReachedFrom(i, n) ==
    IF n = 0 THEN {}
    ELSE LET direct == {j \in TypeDefinitions : definitions[j].name \in References(i)} IN
         direct \cup UNION {ReachedFrom(j, n - 1) : j \in direct}

Acyclic == \A i \in TypeDefinitions : i \notin ReachedFrom(i, Len(definitions))

\* C18: for definitions whose names are distinct and whose alias references
\* are all resolvable and acyclic, in whatever order they stand, register_types
\* succeeds and ends with every definition registered in module_types.
C18_OrderIndependent ==
    (rstage = "done" /\ DistinctNames /\ Resolvable /\ Acyclic) =>
        /\ registered.result = NoError
        /\ \A i \in TypeDefinitions :
              /\ definitions[i].name \in DOMAIN module_types
              /\ module_types[definitions[i].name]
                    = TypeConstructor(definitions[i].location, CurrentModule)

\* Three definitions standing in the reverse of their dependency order (an
\* alias of an alias of a data type) have all been registered.
C18_Witness ==
    /\ rstage = "done"
    /\ definitions = <<TypeAlias("A", 1, <<"B">>), TypeAlias("B", 2, <<"C">>), DataType("C", 3)>>
    /\ registered.result = NoError
    /\ DOMAIN module_types = {"Int", "A", "B", "C"}

\* C19: when register_types has stopped with definitions still failing, and
\* one of them failed on an unknown type name that is the name of a
\* still-failing definition, the result is CyclicTypeDefinitions listing the
\* remaining definitions.
C19_CycleReported ==
    (/\ rstage = "done"
     /\ \E i, j \in 1..Len(registered.failures) :
           /\ registered.failures[i].err.k = "UnknownType"
           /\ registered.failures[i].err.name = registered.failures[j].def.name)
        => registered.result
              = CyclicTypeDefinitions([i \in 1..Len(registered.failures) |->
                                          registered.failures[i].def.location])

\* C20: when two type definitions have the same name, register_types fails
\* with DuplicateTypeName whose location is the later definition's and whose
\* previous_location is the earlier definition's.
C20_DuplicateLocations ==
    (rstage = "done" /\ ~DistinctNames) =>
        /\ registered.result.k = "DuplicateTypeName"
        /\ \E i, j \in TypeDefinitions :
              /\ i < j
              /\ definitions[i].name = registered.result.name
              /\ definitions[j].name = registered.result.name
              /\ registered.result.location = definitions[j].location
              /\ registered.result.previous_location = definitions[i].location

MaxExUnits == 5

\* Term<NamedDeBruijn>.
TermVar(index) == [k |-> "Var", i |-> index, s |-> <<>>]

TermLambda(body) == [k |-> "Lambda", i |-> 0, s |-> <<body>>]

TermApply(function, argument) == [k |-> "Apply", i |-> 0, s |-> <<function, argument>>]

TermDelay(term) == [k |-> "Delay", i |-> 0, s |-> <<term>>]

TermForce(term) == [k |-> "Force", i |-> 0, s |-> <<term>>]

TermConstant(c) == [k |-> "Constant", i |-> c, s |-> <<>>]

TermBuiltin(fun) == [k |-> "Builtin", i |-> fun, s |-> <<>>]

TermError == [k |-> "Error", i |-> 0, s |-> <<>>]

\* (lam x [x x]) (lam x [x x]).
Omega ==
    TermApply(TermLambda(TermApply(TermVar(1), TermVar(1))),
              TermLambda(TermApply(TermVar(1), TermVar(1))))

\* Machine values: Con, Delay(term, env), Lambda{body, env} and
\* Builtin{fun, runtime} with the forces still awaited and the arguments so far.
ValueCon(c) == [k |-> "Con", t |-> TermConstant(c), env |-> <<>>, forces |-> 0, args |-> <<>>]

ValueDelay(term, env) == [k |-> "Delay", t |-> term, env |-> env, forces |-> 0, args |-> <<>>]

ValueLambda(body, env) == [k |-> "Lambda", t |-> body, env |-> env, forces |-> 0, args |-> <<>>]

ValueBuiltin(fun, forces, args) ==
    [k |-> "Builtin", t |-> TermBuiltin(fun), env |-> <<>>, forces |-> forces, args |-> args]

\* The builtins of the model: fun 1 takes two arguments and no force, fun 2
\* one force and one argument.
BuiltinForces(fun) == IF fun = 1 THEN 0 ELSE 1

BuiltinArity(fun) == IF fun = 1 THEN 2 ELSE 1

\* Frames.
FrameApplyFun(value) == [k |-> "FrameApplyFun", v |-> <<value>>, env |-> <<>>, t |-> <<>>]

FrameApplyArg(env, term) == [k |-> "FrameApplyArg", v |-> <<>>, env |-> env, t |-> <<term>>]

FrameForce == [k |-> "FrameForce", v |-> <<>>, env |-> <<>>, t |-> <<>>]

\* The machine: what it computes next (a term in an env under the frames),
\* or how it ended; its budget.
Machine(st, term, env, frames, ex_budget, result) ==
    [st |-> st, term |-> term, env |-> env, frames |-> frames, ex_budget |-> ex_budget,
     result |-> result]

NoMachine == Machine("none", TermError, <<>>, <<>>, ExBudget(0, 0), "")

Halted(m, result) == Machine("halted", TermError, <<>>, <<>>, m.ex_budget, result)

\* The budget after a cost, and whether a dimension is exhausted.
SpendBudget(b, cost) == ExBudget(b.cpu - cost.cpu, b.mem - cost.mem)

Exhausted(b) == b.cpu < 0 \/ b.mem < 0

\* A saturated builtin runs: it charges its cost and gives a constant, or
\* fails on an argument that is not a constant.
RunBuiltin(m, b, costs) ==
    LET spent == [m EXCEPT !.ex_budget = SpendBudget(m.ex_budget, costs)] IN
    IF Exhausted(spent.ex_budget) THEN [halt |-> TRUE, m |-> Halted(spent, "OutOfExError")]
    ELSE IF \E i \in 1..Len(b.args) : b.args[i].k # "Con"
    THEN [halt |-> TRUE, m |-> Halted(spent, "TypeMismatch")]
    ELSE [halt |-> FALSE, m |-> spent]

\* A value is returned to the frames: the machine goes on to the next term to
\* compute, or ends.
RECURSIVE ReturnCompute(_, _, _)
RECURSIVE ReturnBuiltin(_, _, _)
ReturnCompute(m, value, costs) ==
    IF m.frames = <<>> THEN Halted(m, "Done")
    ELSE LET frame == m.frames[Len(m.frames)]
             rest == [m EXCEPT !.frames = SubSeq(m.frames, 1, Len(m.frames) - 1)] IN
         CASE frame.k = "FrameApplyArg" ->
                 Machine("compute", frame.t[1], frame.env,
                         Append(rest.frames, FrameApplyFun(value)), m.ex_budget, "")
           [] frame.k = "FrameApplyFun" ->
                 (CASE frame.v[1].k = "Lambda" ->
                         Machine("compute", frame.v[1].t, Append(frame.v[1].env, value),
                                 rest.frames, m.ex_budget, "")
                    [] frame.v[1].k = "Builtin" /\ frame.v[1].forces = 0 ->
                         ReturnBuiltin(rest, [frame.v[1] EXCEPT !.args = Append(@, value)], costs)
                    [] frame.v[1].k = "Builtin" -> Halted(m, "BuiltinTermArgumentExpected")
                    [] OTHER -> Halted(m, "NonFunctionalApplication"))
           [] OTHER ->
                 (CASE value.k = "Delay" ->
                         Machine("compute", value.t, value.env, rest.frames, m.ex_budget, "")
                    [] value.k = "Builtin" /\ value.forces > 0 ->
                         ReturnBuiltin(rest, [value EXCEPT !.forces = @ - 1], costs)
                    [] OTHER -> Halted(m, "NonPolymorphicInstantiation"))

ReturnBuiltin(m, b, costs) ==
    IF b.forces = 0 /\ Len(b.args) = BuiltinArity(b.t.i)
    THEN (IF RunBuiltin(m, b, costs).halt THEN RunBuiltin(m, b, costs).m
          ELSE ReturnCompute(RunBuiltin(m, b, costs).m, ValueCon(0), costs))
    ELSE ReturnCompute(m, b, costs)

\* One step: the cost of the term is charged, and the term is computed.
Compute(m, costs) ==
    LET spent == [m EXCEPT !.ex_budget = SpendBudget(m.ex_budget, costs)]
        term == m.term IN
    IF Exhausted(spent.ex_budget) THEN Halted(spent, "OutOfExError")
    ELSE CASE term.k = "Var" ->
                 (IF term.i \in 1..Len(m.env)
                  THEN ReturnCompute(spent, m.env[Len(m.env) - term.i + 1], costs)
                  ELSE Halted(spent, "OpenTermEvaluated"))
           [] term.k = "Lambda" -> ReturnCompute(spent, ValueLambda(term.s[1], m.env), costs)
           [] term.k = "Delay" -> ReturnCompute(spent, ValueDelay(term.s[1], m.env), costs)
           [] term.k = "Force" ->
                 [spent EXCEPT !.term = term.s[1], !.frames = Append(@, FrameForce)]
           [] term.k = "Apply" ->
                 [spent EXCEPT !.term = term.s[1],
                               !.frames = Append(@, FrameApplyArg(m.env, term.s[2]))]
           [] term.k = "Constant" -> ReturnCompute(spent, ValueCon(term.i), costs)
           [] term.k = "Builtin" ->
                 ReturnCompute(spent, ValueBuiltin(term.i, BuiltinForces(term.i), <<>>), costs)
           [] OTHER -> Halted(spent, "EvaluationFailure")

\* The programs evaluated, the budgets and the costs of a step.
Programs ==
    {Omega,
     TermApply(TermLambda(TermVar(1)), TermConstant(1)),
     TermForce(TermDelay(TermConstant(1))),
     TermDelay(Omega),
     TermForce(TermDelay(Omega)),
     TermApply(TermConstant(1), TermConstant(1)),
     TermApply(TermLambda(TermVar(2)), TermConstant(1)),
     TermApply(TermLambda(TermError), TermConstant(1)),
     TermApply(TermApply(TermBuiltin(1), TermConstant(1)), TermConstant(1)),
     TermApply(TermForce(TermBuiltin(2)), TermLambda(TermVar(1))),
     TermForce(TermConstant(1))}

Budgets == {ExBudget(cpu, mem) : cpu \in (0 - 1)..MaxExUnits, mem \in (0 - 1)..MaxExUnits}

MachineCosts == {ExBudget(1, 1), ExBudget(2, 1), ExBudget(1, 2)}

\* EvalResult { result, remaining_budget, initial_budget }.
EvalResult(result, remaining, initial) ==
    [done |-> TRUE, result |-> result, remaining_budget |-> remaining,
     initial_budget |-> initial]

NoEvalResult == [EvalResult("", ExBudget(0, 0), ExBudget(0, 0)) EXCEPT !.done = FALSE]

MachineIdle ==
    /\ eval_term = TermError
    /\ eval_budget = ExBudget(0, 0)
    /\ machine_costs = ExBudget(1, 1)
    /\ machine = NoMachine
    /\ msteps = 0
    /\ eval_result = EvalResult("", ExBudget(0, 0), ExBudget(0, 0))

MachineInit ==
    /\ eval_term \in Programs
    /\ eval_budget \in Budgets
    /\ machine_costs \in MachineCosts
    /\ machine = NoMachine
    /\ msteps = 0
    /\ eval_result = NoEvalResult

\* A variant of eval that runs the machine on a budget of its own.
Eval_OwnBudget ==
    /\ machine.st = "none"
    /\ ~eval_result.done
    /\ machine' = Machine("compute", eval_term, <<>>, <<>>,
                          ExBudget(MaxExUnits + 1, MaxExUnits + 1), "")
    /\ UNCHANGED <<eval_term, eval_budget, machine_costs, msteps, eval_result>>
    /\ MachineFrame

\* Program::eval: Machine::new(.., initial_budget, ..) and machine.run(term).
Eval ==
    /\ machine.st = "none"
    /\ ~eval_result.done
    /\ machine' = Machine("compute", eval_term, <<>>, <<>>, eval_budget, "")
    /\ UNCHANGED <<eval_term, eval_budget, machine_costs, msteps, eval_result>>
    /\ MachineFrame

\* A step of machine.run.
Step ==
    /\ machine.st = "compute"
    /\ \E next \in {Compute(machine, machine_costs)} : machine' = next
    /\ msteps' = msteps + 1
    /\ UNCHANGED <<eval_term, eval_budget, machine_costs, eval_result>>
    /\ MachineFrame

\* Program::eval: EvalResult::new(term, machine.ex_budget, initial_budget, logs).
Evaluated ==
    /\ machine.st = "halted"
    /\ ~eval_result.done
    /\ eval_result' = EvalResult(machine.result, machine.ex_budget, eval_budget)
    /\ UNCHANGED <<eval_term, eval_budget, machine_costs, machine, msteps>>
    /\ MachineFrame

MachineNext == Eval \/ Step \/ Evaluated

\* What the machine has spent after msteps steps of step cost alone.
StepsCost == ExBudget(msteps * machine_costs.cpu, msteps * machine_costs.mem)

\* C21 as stated: the evaluation of the omega term ends with OutOfExError and
\* remaining_budget.cpu <= 0.
C21_OmegaExhaustsCpu ==
    (eval_result.done /\ eval_term = Omega) =>
        /\ eval_result.result = "OutOfExError"
        /\ eval_result.remaining_budget.cpu <= 0

\* C21 amended: every step takes its cost off the budget of the call, a
\* machine that goes on after a step has exhausted neither dimension (so it halts within
\* the steps the budget pays for), and the omega term ends with OutOfExError
\* and a remaining budget below zero in cpu or in mem.
C21_BudgetBoundsEvaluation ==
    /\ machine.st # "none" =>
          /\ machine.ex_budget.cpu <= eval_budget.cpu - StepsCost.cpu
          /\ machine.ex_budget.mem <= eval_budget.mem - StepsCost.mem
    /\ (machine.st = "compute" /\ msteps > 0) => ~Exhausted(machine.ex_budget)
    /\ (machine.st = "halted" /\ machine.result = "OutOfExError") =>
          Exhausted(machine.ex_budget)
    /\ (eval_result.done /\ eval_term = Omega) =>
          /\ eval_result.result = "OutOfExError"
          /\ eval_result.initial_budget = eval_budget
          /\ (eval_result.remaining_budget.cpu < 0 \/ eval_result.remaining_budget.mem < 0)

\* The omega term has run for several steps and ended on the exhaustion of
\* mem with cpu left.
C21_Witness ==
    /\ eval_result.done
    /\ eval_term = Omega
    /\ msteps > 3
    /\ eval_result.result = "OutOfExError"
    /\ eval_result.remaining_budget.mem < 0
    /\ eval_result.remaining_budget.cpu > 0

(***************************************************************************)
(* FieldMap::reorder (fields.rs).  Indices are those of the code, from 0;  *)
(* the argument at index i is args[i + 1].                                 *)
(***************************************************************************)
MaxArity == 3

\* CallArg { label: Option<String>, value }: "" is None; `value` tells the
\* arguments apart.
CallArg(label, value) == [label |-> label, value |-> value]

FieldLabels == {"a", "b", "c"}

\* FieldMap { arity, fields }: any labels, at any index up to arity.
FieldMaps ==
    UNION {{[arity |-> n, fields |-> f] :
               f \in UNION {[ls -> 0..n] : ls \in SUBSET FieldLabels}} : n \in 0..MaxArity}

CallArgs ==
    UNION {{args \in [1..n -> {CallArg(l, v) : l \in FieldLabels \cup {"", "z"}, v \in 1..n}] :
               \A i \in 1..n : args[i].value = i} : n \in 0..MaxArity}

\* The local state of reorder: the argument vector, i, seen_labels,
\* unknown_labels and, once it has returned, the result.
Reordering(pc, args, i, seen_labels, unknown_labels, iterations, result) ==
    [pc |-> pc, args |-> args, i |-> i, seen_labels |-> seen_labels,
     unknown_labels |-> unknown_labels, iterations |-> iterations, result |-> result]

NotReordering == Reordering("new", <<>>, 0, {}, <<>>, 0, "")

Returned(r, result) == [r EXCEPT !.pc = "done", !.result = result]

\* args.swap(a, b), indices from 0.
Swap(args, a, b) == [args EXCEPT ![a + 1] = args[b + 1], ![b + 1] = args[a + 1]]

\* The first loop of reorder: a positional argument after a labelled one.
PositionalAfterLabeled(args) ==
    \E i, j \in 1..Len(args) : i < j /\ args[i].label # "" /\ args[j].label = ""

FieldsIdle ==
    /\ field_map = [arity |-> 0, fields |-> <<>>]
    /\ call_args = <<>>
    /\ reordering = Returned(NotReordering, "Ok")

FieldsInit ==
    /\ field_map \in FieldMaps
    /\ call_args \in CallArgs
    /\ reordering = NotReordering

\* reorder is called: the arity check and the sweep for a positional
\* argument after a labelled one.
Reorder ==
    /\ reordering.pc = "new"
    /\ reordering' =
          IF field_map.arity # Len(call_args)
          THEN Returned(NotReordering, "IncorrectFieldsArity")
          ELSE IF PositionalAfterLabeled(call_args)
          THEN Returned(NotReordering, "PositionalArgumentAfterLabeled")
          ELSE Reordering("loop", call_args, 0, {}, <<>>, 0, "")
    /\ UNCHANGED <<field_map, call_args>>
    /\ FieldsFrame

\* A variant of the loop body that moves on after a swap.
WhileBody_AdvancesAfterSwap(r, fm) ==
    LET label == r.args[r.i + 1].label
        counted == [r EXCEPT !.iterations = @ + 1] IN
    IF label = "" THEN [counted EXCEPT !.i = @ + 1]
    ELSE IF label \notin DOMAIN fm.fields
    THEN [counted EXCEPT !.unknown_labels = Append(@, r.args[r.i + 1].value), !.i = @ + 1]
    ELSE IF fm.fields[label] = r.i
    THEN [counted EXCEPT !.seen_labels = @ \cup {label}, !.i = @ + 1]
    ELSE IF label \in r.seen_labels THEN Returned(counted, "DuplicateArgument")
    ELSE IF fm.fields[label] >= Len(r.args) THEN Returned(counted, "panic")
    ELSE [counted EXCEPT !.seen_labels = @ \cup {label},
                         !.args = Swap(@, fm.fields[label], r.i), !.i = @ + 1]

\* The body of `while i < args.len()`. args.swap panics on an index that is
\* not below the length.
WhileBody(r, fm) ==
    LET label == r.args[r.i + 1].label
        counted == [r EXCEPT !.iterations = @ + 1] IN
    IF label = "" THEN [counted EXCEPT !.i = @ + 1]
    ELSE IF label \notin DOMAIN fm.fields
    THEN [counted EXCEPT !.unknown_labels = Append(@, r.args[r.i + 1].value), !.i = @ + 1]
    ELSE IF fm.fields[label] = r.i
    THEN [counted EXCEPT !.seen_labels = @ \cup {label}, !.i = @ + 1]
    ELSE IF label \in r.seen_labels THEN Returned(counted, "DuplicateArgument")
    ELSE IF fm.fields[label] >= Len(r.args) THEN Returned(counted, "panic")
    ELSE [counted EXCEPT !.seen_labels = @ \cup {label},
                         !.args = Swap(@, fm.fields[label], r.i)]

\* One iteration of the loop.
ReorderStep ==
    /\ reordering.pc = "loop"
    /\ reordering.i < Len(reordering.args)
    /\ reordering' = WhileBody(reordering, field_map)
    /\ UNCHANGED <<field_map, call_args>>
    /\ FieldsFrame

\* The loop has ended: Ok, or the unknown labels together.
ReorderReturn ==
    /\ reordering.pc = "loop"
    /\ reordering.i >= Len(reordering.args)
    /\ reordering' = Returned(reordering, IF reordering.unknown_labels = <<>> THEN "Ok"
                                          ELSE "UnknownLabels")
    /\ UNCHANGED <<field_map, call_args>>
    /\ FieldsFrame

FieldsNext == Reorder \/ ReorderStep \/ ReorderReturn

\* The field map has distinct indices below its arity.
DistinctBelowArity ==
    /\ \A l \in DOMAIN field_map.fields : field_map.fields[l] < field_map.arity
    /\ \A l1, l2 \in DOMAIN field_map.fields :
          field_map.fields[l1] = field_map.fields[l2] => l1 = l2

\* C22: when reorder returns Ok on a field map with distinct indices below
\* the arity, the arguments are a permutation of those handed in and every
\* labelled argument sits at the index of its label; the loop ends within
\* twice as many iterations as there are arguments, whatever the input.
C22_ReorderPlacesLabels ==
    /\ reordering.iterations <= 2 * Len(call_args)
    /\ (reordering.pc = "done" /\ reordering.result = "Ok" /\ DistinctBelowArity) =>
          /\ Len(reordering.args) = Len(call_args)
          /\ \A i \in 1..Len(call_args) :
                \E j \in 1..Len(call_args) : reordering.args[j] = call_args[i]
          /\ \A j \in 1..Len(reordering.args) :
                reordering.args[j].label # "" =>
                   /\ reordering.args[j].label \in DOMAIN field_map.fields
                   /\ field_map.fields[reordering.args[j].label] = j - 1

\* Three labelled arguments handed over rotated have been put in place, each
\* swap bringing another misplaced argument to the front.
C22_Witness ==
    /\ reordering.pc = "done"
    /\ reordering.result = "Ok"
    /\ field_map.fields = [l \in FieldLabels |-> CASE l = "a" -> 0 [] l = "b" -> 1 [] OTHER -> 2]
    /\ call_args = <<CallArg("b", 1), CallArg("c", 2), CallArg("a", 3)>>
    /\ reordering.args = <<CallArg("a", 3), CallArg("b", 1), CallArg("c", 2)>>
    /\ reordering.iterations = 5

(***************************************************************************)
(* Machine values (machine/value.rs): the memory metric to_ex_mem and the  *)
(* conversions between BigInt and pallas::BigInt.  A BigInt is a sign and  *)
(* the big-endian bytes of its magnitude, without leading zeros.           *)
(***************************************************************************)
MaxIntBytes == 9
MaxItems == 2

BigInt(sign, mag) == [sign |-> sign, mag |-> mag]

Zero == BigInt(0, <<>>)

\* BigInt::to_bytes_be: the magnitude, [0] for zero.
to_bytes_be(n) == IF n.mag = <<>> THEN <<0>> ELSE n.mag

\* BigInt::from_bytes_be(sign, bytes): leading zeros dropped, zero has no sign.
RECURSIVE StripZeros(_)
StripZeros(b) == IF b # <<>> /\ Head(b) = 0 THEN StripZeros(Tail(b)) ELSE b

from_bytes_be(sign, b) == IF StripZeros(b) = <<>> THEN Zero ELSE BigInt(sign, StripZeros(b))

\* The number of bits of a byte, and u8::leading_zeros.
BitLength(u) == CHOOSE k \in 0..8 : u < Pow2(k) /\ (k > 0 => u >= Pow2(k - 1))

leading_zeros(u) == 8 - BitLength(u)

\* BigInt::bits.
BigIntBits(n) == IF n.mag = <<>> THEN 0 ELSE 8 * (Len(n.mag) - 1) + BitLength(n.mag[1])

\* integer_log2 on a magnitude.
integer_log2(i) ==
    (8 - leading_zeros(to_bytes_be(i)[1]) - 1) + 8 * (Len(to_bytes_be(i)) - 1)

\* A magnitude plus one and, when it is not zero, minus one.
RECURSIVE Inc(_)
Inc(b) ==
    IF b = <<>> THEN <<1>>
    ELSE IF b[Len(b)] < 255 THEN [b EXCEPT ![Len(b)] = @ + 1]
    ELSE Append(Inc(SubSeq(b, 1, Len(b) - 1)), 0)

RECURSIVE Dec(_)
Dec(b) ==
    IF b[Len(b)] > 0 THEN [b EXCEPT ![Len(b)] = @ - 1]
    ELSE Append(Dec(SubSeq(b, 1, Len(b) - 1)), 255)

\* pallas::BigInt: Int (a CBOR integer: a u64 `val` of 8 bytes that stands for
\* val, or for -1 - val when `neg`), BigUInt(bytes), BigNInt(bytes).
PallasInt(neg, val) == [k |-> "Int", neg |-> neg, bytes |-> val]

BigUInt(b) == [k |-> "BigUInt", neg |-> FALSE, bytes |-> b]

BigNInt(b) == [k |-> "BigNInt", neg |-> TRUE, bytes |-> b]

PallasAbort == [k |-> "panic", neg |-> FALSE, bytes |-> <<>>]

\* i64::try_from(n) succeeds: n is in -2^63 .. 2^63 - 1.
FitsI64(n) ==
    \/ BigIntBits(n) <= 63
    \/ n.sign < 0 /\ n.mag = <<128, 0, 0, 0, 0, 0, 0, 0>>

\* Int::from(i64) and i128::from(Int).
IntFromI64(n) ==
    LET val == IF n.sign < 0 THEN StripZeros(Dec(n.mag)) ELSE n.mag IN
    PallasInt(n.sign < 0, [i \in 1..8 |-> IF i <= 8 - Len(val) THEN 0 ELSE val[i - (8 - Len(val))]])

I128FromInt(p) == IF p.neg THEN BigInt(0 - 1, Inc(StripZeros(p.bytes))) ELSE from_bytes_be(1, p.bytes)

\* from_pallas_bigint.
from_pallas_bigint(n) ==
    CASE n.k = "Int" -> I128FromInt(n)
      [] n.k = "BigUInt" -> from_bytes_be(1, n.bytes)
      [] OTHER -> from_bytes_be(0 - 1, n.bytes)

\* to_pallas_bigint: `n.try_into().unwrap()` aborts when n has at most 64
\* bits and is not an i64.
to_pallas_bigint(n) ==
    IF BigIntBits(n) <= 64
    THEN (IF FitsI64(n) THEN IntFromI64(n) ELSE PallasAbort)
    ELSE IF n.sign > 0 THEN BigUInt(to_bytes_be(n))
    ELSE BigNInt(to_bytes_be(n))

\* Constant and Value: one shape for all; `items` holds the elements of a
\* list or the two sides of a pair, `d` the PlutusData of a Data.
Constant(k, n, b, items, d) == [k |-> k, n |-> n, b |-> b, items |-> items, d |-> d]

ConInteger(n) == Constant("Integer", n, <<>>, <<>>, <<>>)

ConByteString(b) == Constant("ByteString", Zero, b, <<>>, <<>>)

\* A String as the UTF-8 widths of its characters.
ConString(s) == Constant("String", Zero, s, <<>>, <<>>)

ConUnit == Constant("Unit", Zero, <<>>, <<>>, <<>>)

ConBool(b) == Constant("Bool", Zero, IF b THEN <<1>> ELSE <<0>>, <<>>, <<>>)

ProtoList(items) == Constant("ProtoList", Zero, <<>>, items, <<>>)

ProtoPair(l, r) == Constant("ProtoPair", Zero, <<>>, <<l, r>>, <<>>)

ConData(item) == Constant("Data", Zero, <<>>, <<>>, <<item>>)

NotACon(k) == Constant(k, Zero, <<>>, <<>>, <<>>)

\* PlutusData: Constr(fields), Map(pairs), BigInt, BoundedBytes, Array.
PlutusData(k, fields, n, b) == [k |-> k, fields |-> fields, n |-> n, b |-> b]

DataConstr(fields) == PlutusData("Constr", fields, PallasAbort, <<>>)

DataMap(pairs) == PlutusData("Map", pairs, PallasAbort, <<>>)

DataBigInt(n) == PlutusData("BigInt", <<>>, n, <<>>)

DataBoundedBytes(b) == PlutusData("BoundedBytes", <<>>, PallasAbort, b)

DataArray(a) == PlutusData("Array", a, PallasAbort, <<>>)

\* m.iter().fold(..): the keys and values of a Map, pair after pair.
RECURSIVE KeysAndValues(_)
KeysAndValues(pairs) ==
    IF pairs = <<>> THEN <<>> ELSE <<Head(pairs)[1], Head(pairs)[2]>> \o KeysAndValues(Tail(pairs))

\* The metric of an Integer and of a ByteString.
IntegerExMem(i) == IF i = Zero THEN 1 ELSE (integer_log2(BigInt(1, i.mag)) \div 64) + 1

ByteStringExMem(b) == IF b = <<>> THEN 1 ELSE ((Len(b) - 1) \div 8) + 1

\* A variant of the loop of data_to_ex_mem that counts no cost for a node that
\* holds other nodes.
RECURSIVE DataLoop_LeavesOnly(_, _)
DataLoop_LeavesOnly(stack, total) ==
    IF stack = <<>> THEN total
    ELSE LET item == Head(stack) IN
         CASE item.k \in {"Constr", "Array"} ->
                 DataLoop_LeavesOnly(item.fields \o Tail(stack), total)
           [] item.k = "Map" ->
                 DataLoop_LeavesOnly(KeysAndValues(item.fields) \o Tail(stack), total)
           [] item.k = "BigInt" ->
                 DataLoop_LeavesOnly(Tail(stack),
                                     total + 4 + IntegerExMem(from_pallas_bigint(item.n)))
           [] OTHER -> DataLoop_LeavesOnly(Tail(stack), total + 4 + ByteStringExMem(item.b))

\* The loop of Value::data_to_ex_mem over its stack.
RECURSIVE DataLoop(_, _)
DataLoop(stack, total) ==
    IF stack = <<>> THEN total
    ELSE LET item == Head(stack) IN
         CASE item.k \in {"Constr", "Array"} -> DataLoop(item.fields \o Tail(stack), total + 4)
           [] item.k = "Map" ->
                 DataLoop(KeysAndValues(item.fields) \o Tail(stack), total + 4)
           [] item.k = "BigInt" ->
                 DataLoop(Tail(stack), total + 4 + IntegerExMem(from_pallas_bigint(item.n)))
           [] OTHER -> DataLoop(Tail(stack), total + 4 + ByteStringExMem(item.b))

data_to_ex_mem(item) == DataLoop(<<item>>, 0)

\* Value::to_ex_mem.
RECURSIVE to_ex_mem(_)
RECURSIVE FoldExMem(_, _)
to_ex_mem(v) ==
    CASE v.k = "Integer" -> IntegerExMem(v.n)
      [] v.k = "ByteString" -> ByteStringExMem(v.b)
      [] v.k = "String" -> Len(v.b)
      [] v.k \in {"Unit", "Bool"} -> 1
      [] v.k = "ProtoList" -> FoldExMem(v.items, 0)
      [] v.k = "ProtoPair" -> to_ex_mem(v.items[1]) + to_ex_mem(v.items[2])
      [] v.k = "Data" -> data_to_ex_mem(v.d[1])
      [] OTHER -> 1

FoldExMem(items, acc) ==
    IF items = <<>> THEN acc ELSE FoldExMem(Tail(items), acc + to_ex_mem(Head(items)))

\* The integers of the model: a first byte, then bytes that are all 0 or all
\* 255, up to MaxIntBytes bytes, of either sign, and zero.
Magnitudes ==
    {[i \in 1..n |-> IF i = 1 THEN first ELSE rest] :
        n \in 1..MaxIntBytes, first \in {1, 2, 127, 128, 255}, rest \in {0, 255}}

BigInts == {Zero} \cup {BigInt(s, mag) : s \in {0 - 1, 1}, mag \in Magnitudes}

SmallInts == {Zero, BigInt(1, <<2>>), BigInt(0 - 1, <<1, 0>>), BigInt(1, <<128, 0, 0, 0, 0, 0, 0, 0, 0>>)}

ByteStrings == {[i \in 1..n |-> 0] : n \in {0, 1, 2, 8, 9, 16, 17}}

Strings == UNION {[1..n -> {1, 2}] : n \in 0..MaxItems}

DataLeaves ==
    {DataBigInt(IntFromI64(BigInt(1, <<2>>))), DataBigInt(PallasInt(TRUE, [i \in 1..8 |-> 255])),
     DataBigInt(BigUInt(<<1, 0, 0, 0, 0, 0, 0, 0, 0>>)),
     DataBoundedBytes(<<>>), DataBoundedBytes([i \in 1..9 |-> 0])}

DataNodes(of) ==
    UNION {{DataConstr(f), DataArray(f)} : f \in UNION {[1..n -> of] : n \in 0..MaxItems}}
    \cup {DataMap(<<<<k, v>>>>) : k \in of, v \in of}

PlutusDataItems == DataLeaves \cup DataNodes(DataLeaves) \cup {DataArray(<<d>>) : d \in DataNodes(DataLeaves)}

SimpleConstants ==
    {ConInteger(n) : n \in SmallInts} \cup {ConByteString(b) : b \in ByteStrings}
    \cup {ConString(s) : s \in Strings} \cup {ConUnit, ConBool(TRUE), ConBool(FALSE)}

ConstantValues ==
    {ConInteger(n) : n \in BigInts} \cup SimpleConstants
    \cup {ProtoList(items) : items \in UNION {[1..n -> SimpleConstants] : n \in 0..MaxItems}}
    \cup {ProtoPair(l, ProtoList(<<r>>)) : l \in SimpleConstants, r \in SimpleConstants}
    \cup {ConData(d) : d \in PlutusDataItems}

MachineValues == ConstantValues \cup {NotACon("Delay"), NotACon("Lambda"), NotACon("Builtin")}

ValueIdle ==
    /\ machine_value = ConUnit
    /\ big_n = Zero
    /\ vstage = "done"
    /\ ex_mem = 0
    /\ pallas_n = PallasAbort
    /\ round_n = Zero

\* A value whose metric is asked for, or an integer to convert.
ValueInit ==
    /\ \/ machine_value \in MachineValues /\ big_n = Zero
       \/ machine_value = ConUnit /\ big_n \in BigInts
    /\ vstage = "new"
    /\ ex_mem = 0
    /\ pallas_n = PallasAbort
    /\ round_n = Zero

\* The cost model asks for value.to_ex_mem().
ToExMem ==
    /\ vstage = "new"
    /\ \E mem \in {to_ex_mem(machine_value)} : ex_mem' = mem
    /\ vstage' = "measured"
    /\ UNCHANGED <<machine_value, big_n, pallas_n, round_n>>
    /\ ValueFrame

\* A caller converts big_n with to_pallas_bigint.
ToPallasBigint ==
    /\ vstage = "new"
    /\ pallas_n' = to_pallas_bigint(big_n)
    /\ vstage' = IF to_pallas_bigint(big_n) = PallasAbort THEN "aborted" ELSE "converted"
    /\ UNCHANGED <<machine_value, big_n, ex_mem, round_n>>
    /\ ValueFrame

\* The caller converts the result back with from_pallas_bigint.
FromPallasBigint ==
    /\ vstage = "converted"
    /\ round_n' = from_pallas_bigint(pallas_n)
    /\ vstage' = "back"
    /\ UNCHANGED <<machine_value, big_n, ex_mem, pallas_n>>
    /\ ValueFrame

ValueNext == ToExMem \/ ToPallasBigint \/ FromPallasBigint

(***************************************************************************)
(* The memory metric as a formula: the rounding of the Integer and         *)
(* ByteString cases is a parameter, the data nodes are walked as a tree.   *)
(***************************************************************************)
CeilDiv(a, b) == (a + b - 1) \div b

Rounded(a, b, ceiling) == IF ceiling THEN CeilDiv(a, b) ELSE a \div b

\* The integer part of log2 of a magnitude: the position of its highest bit.
FloorLog2(mag) == CHOOSE e \in 0..(8 * Len(mag)) : BigIntBits(BigInt(1, mag)) = e + 1

RECURSIVE SpecifiedDataMem(_, _)
RECURSIVE SumOfData(_, _)
RECURSIVE SumOfPairs(_, _)
SpecifiedDataMem(dt, ceiling) ==
    CASE dt.k \in {"Constr", "Array"} -> 4 + SumOfData(dt.fields, ceiling)
      [] dt.k = "Map" -> 4 + SumOfPairs(dt.fields, ceiling)
      [] dt.k = "BigInt" ->
            4 + (IF from_pallas_bigint(dt.n) = Zero THEN 1
                 ELSE Rounded(FloorLog2(from_pallas_bigint(dt.n).mag), 64, ceiling) + 1)
      [] OTHER -> 4 + (IF dt.b = <<>> THEN 1 ELSE Rounded(Len(dt.b) - 1, 8, ceiling) + 1)

SumOfData(items, ceiling) ==
    IF items = <<>> THEN 0
    ELSE SpecifiedDataMem(Head(items), ceiling) + SumOfData(Tail(items), ceiling)

SumOfPairs(pairs, ceiling) ==
    IF pairs = <<>> THEN 0
    ELSE SpecifiedDataMem(Head(pairs)[1], ceiling) + SpecifiedDataMem(Head(pairs)[2], ceiling)
         + SumOfPairs(Tail(pairs), ceiling)

RECURSIVE SpecifiedExMem(_, _)
RECURSIVE SumOfExMem(_, _)
SpecifiedExMem(v, ceiling) ==
    CASE v.k = "Integer" ->
            (IF v.n = Zero THEN 1 ELSE Rounded(FloorLog2(v.n.mag), 64, ceiling) + 1)
      [] v.k = "ByteString" ->
            (IF v.b = <<>> THEN 1 ELSE Rounded(Len(v.b) - 1, 8, ceiling) + 1)
      [] v.k = "String" -> Cardinality(DOMAIN v.b)
      [] v.k \in {"Unit", "Bool"} -> 1
      [] v.k \in {"ProtoList", "ProtoPair"} -> SumOfExMem(v.items, ceiling)
      [] v.k = "Data" -> SpecifiedDataMem(v.d[1], ceiling)
      [] OTHER -> 1

SumOfExMem(items, ceiling) ==
    IF items = <<>> THEN 0
    ELSE SpecifiedExMem(Head(items), ceiling) + SumOfExMem(Tail(items), ceiling)

\* C23 (as stated): to_ex_mem equals the formula for every value, where an
\* Integer n gives ceiling(log2|n| / 64) + 1 (1 for 0) and a ByteString of
\* length len gives ceiling((len - 1) / 8) + 1 (1 when empty).
C23_CeilingFormula ==
    vstage = "measured" => ex_mem = SpecifiedExMem(machine_value, TRUE)

\* C23 (amended): to_ex_mem equals the formula for every value, where an
\* Integer n gives floor(floor(log2|n|) / 64) + 1 (1 for 0) and a ByteString
\* of length len gives floor((len - 1) / 8) + 1 (1 when empty); String gives
\* its character count, Unit and Bool 1, ProtoList and ProtoPair the sum of
\* their elements, Data 4 per node plus its integer and bytes leaves, and
\* Delay, Lambda and Builtin 1.
C23_FloorFormula ==
    vstage = "measured" => ex_mem = SpecifiedExMem(machine_value, FALSE)

\* A Data whose tree has nodes in nodes and a leaf of more than one word.
C23_Witness ==
    /\ vstage = "measured"
    /\ machine_value.k = "Data"
    /\ machine_value.d[1].k = "Array"
    /\ Len(machine_value.d[1].fields) = 1
    /\ machine_value.d[1].fields[1].k = "Map"
    /\ machine_value.d[1].fields[1].fields[1][2].k = "BigInt"
    /\ machine_value.d[1].fields[1].fields[1][2].n.k = "BigUInt"
    /\ ex_mem >= 19

\* C30: to_pallas_bigint never aborts and from_pallas_bigint gives the
\* integer back, for every integer.
C30_RoundTrip ==
    /\ vstage # "aborted"
    /\ vstage = "back" => round_n = big_n

(***************************************************************************)
(* The pipe typer (tipo/pipe.rs).  The expression typer it calls is kept   *)
(* to what a pipeline needs: literals, named functions, the pipe variable  *)
(* read from the scope, and calls of a known function.  Types have no      *)
(* variables, so unification is equality.                                  *)
(***************************************************************************)
MaxPipeline == 4

PIPE_VARIABLE == "_pipe"

TypeNamed(name) == [name |-> name, args |-> <<>>, ret |-> <<>>]

FnType(args, ret) == [name |-> "fn", args |-> args, ret |-> <<ret>>]

\* Type::fn_arity: the number of arguments of a function type, -1 for None.
fn_arity(t) == IF t.name = "fn" THEN Len(t.args) ELSE 0 - 1

\* UntypedExpr: a Call of `fun` with `arguments`, or any other expression;
\* `nested` says that the function expression holds a pipeline of its own.
UntypedCall(fun, arguments, nested) ==
    [k |-> "Call", name |-> fun.name, tipo |-> fun.tipo, arguments |-> arguments, nested |-> nested]

UntypedOther(name, tipo, nested) ==
    [k |-> "Other", name |-> name, tipo |-> tipo, arguments |-> <<>>, nested |-> nested]

UntypedPipeVar == UntypedOther(PIPE_VARIABLE, TypeNamed("?"), FALSE)

\* TypedExpr: Var, Call (fun is the name of the called function, args the
\* typed arguments), Assignment (value is the assigned expression).
TypedExpr(k, tipo, name, args, value) ==
    [k |-> k, tipo |-> tipo, name |-> name, args |-> args, value |-> value]

TypedVar(name, tipo) == TypedExpr("Var", tipo, name, <<>>, <<>>)

TypedCall(tipo, fun, args) == TypedExpr("Call", tipo, fun.name, args, <<>>)

PipeError(e) == TypedExpr("Error", TypeNamed("!"), e, <<>>, <<>>)

IsPipeError(x) == x.k = "Error"

\* ExprTyper::infer: the pipe variable has the type the scope holds for it,
\* any other expression its own type; typing an expression that holds a
\* pipeline ends with PIPE_VARIABLE taken out of the scope.
ExprInfer(expression, in_scope) ==
    IF expression.name = PIPE_VARIABLE
    THEN (IF in_scope = <<>> THEN PipeError("UnknownVariable") ELSE TypedVar(PIPE_VARIABLE, in_scope[1]))
    ELSE TypedVar(expression.name, expression.tipo)

ScopeAfterInfer(expression, in_scope) == IF expression.nested THEN <<>> ELSE in_scope

RECURSIVE InferArgs(_, _, _)
InferArgs(params, arguments, in_scope) ==
    IF arguments = <<>> THEN <<>>
    ELSE LET arg == ExprInfer(Head(arguments), in_scope) IN
         IF IsPipeError(arg) THEN <<arg>>
         ELSE IF arg.tipo # Head(params) THEN <<PipeError("CouldNotUnify")>>
         ELSE <<arg>> \o InferArgs(Tail(params), Tail(arguments), in_scope)

\* ExprTyper::do_infer_call_with_known_fun: the function must take as many
\* arguments as given, and each argument must have the parameter's type.
do_infer_call_with_known_fun(function, arguments, in_scope) ==
    IF fn_arity(function.tipo) = 0 - 1 THEN PipeError("NotFn")
    ELSE IF fn_arity(function.tipo) # Len(arguments) THEN PipeError("IncorrectArity")
    ELSE LET args == InferArgs(function.tipo.args, arguments, in_scope) IN
         IF \E i \in 1..Len(args) : IsPipeError(args[i])
         THEN args[Len(args)]
         ELSE TypedCall(function.tipo.ret[1], function, args)

\* PipeTyper.
PipeTyper(pc, size, argument_type, expressions, rest, i) ==
    [pc |-> pc, size |-> size, argument_type |-> argument_type,
     expressions |-> expressions, rest |-> rest, i |-> i]

NoPipeTyper == PipeTyper("idle", 0, TypeNamed("?"), <<>>, <<>>, 0)

Typing(typer, in_scope, error) == [typer |-> typer, scope |-> in_scope, error |-> error]

Assignment(expression) ==
    TypedExpr("Assignment", expression.tipo, PIPE_VARIABLE, <<>>, <<expression>>)

\* push_assignment_no_update: insert_variable(PIPE_VARIABLE, .., tipo) and
\* push the let-assignment.
push_assignment_no_update(typer, expression) ==
    Typing([typer EXCEPT !.expressions = Append(@, Assignment(expression))],
           <<expression.tipo>>, "")

\* A variant of push_assignment that keeps the argument type it has.
push_assignment_KeepsArgument(typer, expression) ==
    push_assignment_no_update(typer, expression)

\* push_assignment.
push_assignment(typer, expression) ==
    push_assignment_no_update([typer EXCEPT !.argument_type = expression.tipo], expression)

typed_left_hand_value_variable(typer) == TypedVar(PIPE_VARIABLE, typer.argument_type)

\* infer_insert_pipe: the pipe variable becomes argument 0.
infer_insert_pipe(function, arguments, in_scope) ==
    do_infer_call_with_known_fun(function, <<UntypedPipeVar>> \o arguments, in_scope)

\* infer_apply_to_call_pipe: the call first, its result applied to the pipe
\* variable.
infer_apply_to_call_pipe(function, arguments, in_scope) ==
    LET inner == do_infer_call_with_known_fun(function, arguments, in_scope) IN
    IF IsPipeError(inner) THEN inner
    ELSE do_infer_call_with_known_fun(inner, <<UntypedPipeVar>>, in_scope)

\* infer_apply_pipe: func must unify with fn(argument_type) -> return_type.
infer_apply_pipe(typer, func) ==
    IF func.tipo.name = "fn" /\ func.tipo.args = <<typer.argument_type>>
    THEN TypedCall(func.tipo.ret[1], func, <<typed_left_hand_value_variable(typer)>>)
    ELSE PipeError("CouldNotUnify")

\* The body of the loop of infer_each_expression for the call at index i.
InferEach(typer, in_scope) ==
    LET call == Head(typer.rest)
        fun == ExprInfer(call, in_scope)
        after == ScopeAfterInfer(call, in_scope)
        typed == IF call.k = "Call"
                 THEN (IF fn_arity(fun.tipo) = Len(call.arguments) + 1
                       THEN infer_insert_pipe(fun, call.arguments, after)
                       ELSE infer_apply_to_call_pipe(fun, call.arguments, after))
                 ELSE infer_apply_pipe(typer, fun)
        next == [typer EXCEPT !.rest = Tail(@), !.i = @ + 1]
    IN  IF IsPipeError(typed) THEN Typing([typer EXCEPT !.pc = "failed"], after, typed.name)
        ELSE IF typer.i + 2 = typer.size
        THEN Typing([next EXCEPT !.expressions = Append(@, typed)], after, "")
        ELSE push_assignment(next, typed)

\* The expressions of the model.
PipeTypes == {TypeNamed("Int"), TypeNamed("Bool")}

Literal(t) == UntypedOther("lit", t, FALSE)

Stages ==
    {UntypedCall([name |-> "f1", tipo |-> FnType(<<a>>, r)], <<>>, FALSE) : a \in PipeTypes, r \in PipeTypes}
    \cup {UntypedCall([name |-> "f2", tipo |-> FnType(<<a, TypeNamed("Int")>>, a)], <<Literal(TypeNamed("Int"))>>, FALSE) :
            a \in PipeTypes}
    \cup {UntypedCall([name |-> "f0", tipo |-> FnType(<<>>, FnType(<<a>>, a))], <<>>, FALSE) : a \in PipeTypes}
    \cup {UntypedOther("g", FnType(<<a>>, r), FALSE) : a \in PipeTypes, r \in PipeTypes}
    \cup {Literal(TypeNamed("Int")),
          UntypedOther("g", FnType(<<TypeNamed("Int")>>, TypeNamed("Bool")), TRUE),
          UntypedCall([name |-> "f1", tipo |-> FnType(<<TypeNamed("Int")>>, TypeNamed("Int"))], <<>>, TRUE)}

Pipelines ==
    UNION {{<<Literal(t)>> \o s : t \in PipeTypes, s \in [1..n -> Stages]} : n \in 0..(MaxPipeline - 1)}

NoPipeline == TypedExpr("None", TypeNamed("?"), "", <<>>, <<>>)

PipeIdle ==
    /\ pipeline = <<Literal(TypeNamed("Int"))>>
    /\ pipe_typer = [NoPipeTyper EXCEPT !.pc = "returned"]
    /\ pipe_scope = <<>>
    /\ pipe_result = NoPipeline

PipeInit ==
    /\ pipeline \in Pipelines
    /\ pipe_typer = NoPipeTyper
    /\ pipe_scope \in {<<>>, <<TypeNamed("Bool")>>}
    /\ pipe_result = NoPipeline

\* PipeTyper::infer up to the call of infer_expressions.
PipeInfer ==
    /\ pipe_typer.pc = "idle"
    /\ LET first == ExprInfer(Head(pipeline), pipe_scope)
           made == push_assignment_no_update(
                       PipeTyper("each", Len(pipeline), first.tipo, <<>>, Tail(pipeline), 0), first)
       IN  /\ pipe_typer' = made.typer
           /\ pipe_scope' = made.scope
    /\ UNCHANGED <<pipeline, pipe_result>>
    /\ PipeFrame

\* One turn of the loop of infer_each_expression.
InferEachExpression ==
    /\ pipe_typer.pc = "each"
    /\ pipe_typer.rest # <<>>
    /\ LET made == InferEach(pipe_typer, pipe_scope) IN
        /\ pipe_typer' = made.typer
        /\ pipe_scope' = made.scope
        /\ pipe_result' = IF made.error # "" THEN PipeError(made.error) ELSE pipe_result
    /\ UNCHANGED pipeline
    /\ PipeFrame

\* infer_expressions after the loop: PIPE_VARIABLE leaves the scope, then the
\* error or the Pipeline is returned.
InferExpressions ==
    /\ \/ pipe_typer.pc = "each" /\ pipe_typer.rest = <<>>
       \/ pipe_typer.pc = "failed"
    /\ pipe_scope' = <<>>
    /\ pipe_result' = IF pipe_typer.pc = "failed" THEN pipe_result
                      ELSE TypedExpr("Pipeline", TypeNamed("?"), "", pipe_typer.expressions, <<>>)
    /\ pipe_typer' = [pipe_typer EXCEPT !.pc = "returned"]
    /\ UNCHANGED pipeline
    /\ PipeFrame

PipeNext == PipeInfer \/ InferEachExpression \/ InferExpressions

\* The call of stage k (k = 2..N) in a typed pipeline, and its pipe argument.
StageCall(typed, k) == IF typed[k].k = "Assignment" THEN typed[k].value[1] ELSE typed[k]

PipeArgument(call) == call.args[1]

\* C24: a pipeline of N >= 2 expressions that types holds N typed
\* expressions; the first N - 1 are let-assignments of the pipe variable, to
\* e1 and then to the call of each stage in order, and the last is the call of
\* the final stage; the pipe argument of stage k has the type of the result of
\* stage k - 1.
C24_PipelineShape ==
    (pipe_result.k = "Pipeline" /\ Len(pipeline) >= 2) =>
        LET typed == pipe_result.args
            N == Len(pipeline)
        IN  /\ Len(typed) = N
            /\ \A k \in 1..(N - 1) : typed[k].k = "Assignment" /\ typed[k].name = PIPE_VARIABLE
            /\ typed[1].value[1] = TypedVar("lit", pipeline[1].tipo)
            /\ typed[N].k = "Call"
            /\ \A k \in 2..N :
                  /\ StageCall(typed, k).k = "Call"
                  /\ StageCall(typed, k).name = pipeline[k].name
                  /\ PipeArgument(StageCall(typed, k)).name = PIPE_VARIABLE
                  /\ PipeArgument(StageCall(typed, k)).tipo = typed[k - 1].tipo
                  /\ k < N => typed[k].tipo = StageCall(typed, k).tipo

\* A pipeline of four expressions typed with stages of all three shapes and
\* pipe arguments of both types.
C24_Witness ==
    /\ pipe_result.k = "Pipeline"
    /\ Len(pipeline) = 4
    /\ {pipeline[k].name : k \in 2..4} = {"f1", "f0", "g"}
    /\ \E k \in 2..4 : PipeArgument(StageCall(pipe_result.args, k)).tipo = TypeNamed("Bool")
    /\ \E k \in 2..4 : PipeArgument(StageCall(pipe_result.args, k)).tipo = TypeNamed("Int")

(***************************************************************************)
(* IdGenerator (lib.rs): one AtomicU64 behind an Arc that every clone      *)
(* shares.  A call of next() by a caller is three steps: the call, the     *)
(* atomic fetch_add, the return; callers interleave at every step.         *)
(***************************************************************************)
MaxCallers == 3
MaxNextCalls == 4

Callers == 1..MaxCallers

\* AtomicU64::fetch_add(val, Relaxed): one atomic read-modify-write that
\* stores the sum and returns the previous value.
fetch_add_ReturnsSum(cell, val) == [stored |-> cell + val, returned |-> cell + val]

fetch_add(cell, val) == [stored |-> cell + val, returned |-> cell]

NoId == 0 - 1

IdGeneratorIdle ==
    /\ generator_id = 0
    /\ handles = {}
    /\ calling = [c \in Callers |-> [pc |-> "idle", id |-> NoId]]
    /\ issued = <<>>
    /\ received = [c \in Callers |-> <<>>]

\* IdGenerator::new(), held by the first caller.
IdGeneratorInit ==
    /\ generator_id = 0
    /\ handles = {1}
    /\ calling = [c \in Callers |-> [pc |-> "idle", id |-> NoId]]
    /\ issued = <<>>
    /\ received = [c \in Callers |-> <<>>]

\* #[derive(Clone)]: a caller that holds the generator hands a clone of it,
\* with the same Arc, to another caller.
CloneGenerator(c) ==
    /\ handles # {}
    /\ c \notin handles
    /\ handles' = handles \cup {c}
    /\ UNCHANGED <<generator_id, calling, issued, received>>
    /\ IdGeneratorFrame

\* A caller enters next().
CallNext(c) ==
    /\ c \in handles
    /\ calling[c].pc = "idle"
    /\ Len(issued) + Cardinality({d \in Callers : calling[d].pc = "called"}) < MaxNextCalls
    /\ calling' = [calling EXCEPT ![c].pc = "called"]
    /\ UNCHANGED <<generator_id, handles, issued, received>>
    /\ IdGeneratorFrame

\* self.id.fetch_add(1, Ordering::Relaxed).
FetchAdd(c) ==
    /\ calling[c].pc = "called"
    /\ generator_id' = fetch_add(generator_id, 1).stored
    /\ calling' = [calling EXCEPT ![c] = [pc |-> "fetched", id |-> fetch_add(generator_id, 1).returned]]
    /\ issued' = Append(issued, [caller |-> c, id |-> fetch_add(generator_id, 1).returned])
    /\ UNCHANGED <<handles, received>>
    /\ IdGeneratorFrame

\* next() returns the id to its caller.
ReturnNext(c) ==
    /\ calling[c].pc = "fetched"
    /\ received' = [received EXCEPT ![c] = Append(@, calling[c].id)]
    /\ calling' = [calling EXCEPT ![c] = [pc |-> "idle", id |-> NoId]]
    /\ UNCHANGED <<generator_id, handles, issued>>
    /\ IdGeneratorFrame

IdGeneratorNext ==
    \E c \in Callers : CloneGenerator(c) \/ CallNext(c) \/ FetchAdd(c) \/ ReturnNext(c)

\* C25: over all clones and every interleaving, no two calls return the same
\* id, the k-th call (in the order of the atomic operation) returns k - 1, and
\* the ids returned to one caller are strictly increasing.
C25_UniqueOrderedIds ==
    /\ \A c, d \in Callers : \A i \in 1..Len(received[c]) : \A j \in 1..Len(received[d]) :
           (received[c][i] = received[d][j]) => (c = d /\ i = j)
    /\ \A k \in 1..Len(issued) : issued[k].id = k - 1
    /\ \A c \in Callers : \A i \in 1..Len(received[c]) : \A j \in 1..Len(received[c]) :
           i < j => received[c][i] < received[c][j]
    /\ \A c \in Callers : calling[c].pc = "fetched" =>
           \A d \in Callers : \A j \in 1..Len(received[d]) : received[d][j] # calling[c].id

\* Three callers hold clones and have interleaved four calls: caller 2 got
\* id 0, caller 1 the ids 1 and 3, caller 3 the id 2.
C25_Witness ==
    /\ handles = Callers
    /\ Len(issued) = MaxNextCalls
    /\ issued[1].caller = 2
    /\ received[1] = <<1, 3>>
    /\ received[2] = <<0>>
    /\ received[3] = <<2>>

(***************************************************************************)
(* increment_usage as the loop it is (env.rs): one turn of `while let` at  *)
(* a time, on every content the usage stack can be given by init_usage.    *)
(***************************************************************************)
MaxUsageDepth == 2

UsageNames == {"a", "b", "c"}

\* The entries a name can have: none, an unused private type, an unused
\* private constructor of the type a, b or c, a used variable.
UsageEntries ==
    {NoEntry, Entry(EntityKind("PrivateType", ""), FALSE), Entry(EntityKind("Variable", ""), TRUE)}
    \cup {Entry(EntityKind("PrivateTypeConstructor", t), FALSE) : t \in UsageNames}

NoUsages == [n \in UsageNames |-> NoEntry]

OuterUsages ==
    {NoUsages,
     [NoUsages EXCEPT !["a"] = Entry(EntityKind("PrivateTypeConstructor", "b"), FALSE)],
     [NoUsages EXCEPT !["b"] = Entry(EntityKind("PrivateType", ""), FALSE)],
     [NoUsages EXCEPT !["c"] = Entry(EntityKind("PrivateTypeConstructor", "a"), TRUE)]}

UsageStacks ==
    UNION {{outer \o <<inner>> : outer \in [1..(d - 1) -> OuterUsages],
                                 inner \in [UsageNames -> UsageEntries]} : d \in 1..MaxUsageDepth}

NotIncrementing == [pc |-> "idle", name |-> "", asked |-> ""]

ChainIdle ==
    /\ usage_stack = <<NoUsages>>
    /\ usage_before = <<NoUsages>>
    /\ incrementing = [NotIncrementing EXCEPT !.pc = "returned"]

ChainInit ==
    /\ usage_stack \in UsageStacks
    /\ usage_before = usage_stack
    /\ incrementing = NotIncrementing

\* increment_usage(name): `let mut name = name.to_string()`.
IncrementUsageOf(name) ==
    /\ incrementing.pc = "idle"
    /\ incrementing' = [pc |-> "while", name |-> name, asked |-> name]
    /\ UNCHANGED <<usage_stack, usage_before>>
    /\ ChainFrame

\* One turn of `while let Some((kind, _, used)) = ..find_map(..)`: the loop
\* ends when no usage map holds the name; otherwise the entry is marked and the
\* loop goes on with the type of a private constructor of another name, or
\* returns.
WhileLet(usages, name) ==
    LET i == FindUsage(usages, name) IN
    IF i = 0 THEN [usages |-> usages, name |-> name, pc |-> "returned"]
    ELSE IF usages[i][name].kind = "PrivateTypeConstructor" /\ usages[i][name].of # name
    THEN [usages |-> [usages EXCEPT ![i][name].used = TRUE], name |-> usages[i][name].of,
          pc |-> "while"]
    ELSE [usages |-> [usages EXCEPT ![i][name].used = TRUE], name |-> name, pc |-> "returned"]

WhileLetSome ==
    /\ incrementing.pc = "while"
    /\ usage_stack' = WhileLet(usage_stack, incrementing.name).usages
    /\ incrementing' = [incrementing EXCEPT !.name = WhileLet(usage_stack, incrementing.name).name,
                                            !.pc = WhileLet(usage_stack, incrementing.name).pc]
    /\ UNCHANGED usage_before
    /\ ChainFrame

ChainNext == (\E name \in UsageNames : IncrementUsageOf(name)) \/ WhileLetSome

\* The names on the chain of a name: the name, and the type of the innermost
\* entry of a name on the chain that is a private constructor of another type.
RECURSIVE ChainOf(_, _, _)
ChainOf(usages, chain, n) ==
    IF n = 0 THEN chain
    ELSE ChainOf(usages,
                 chain \cup {usages[FindUsage(usages, m)][m].of :
                                m \in {x \in chain : /\ FindUsage(usages, x) # 0
                                                     /\ usages[FindUsage(usages, x)][x].kind
                                                           = "PrivateTypeConstructor"}},
                 n - 1)

MarkedChain ==
    incrementing.pc = "returned" =>
        /\ Len(usage_stack) = Len(usage_before)
        /\ \A i \in 1..Len(usage_before) : \A n \in UsageNames :
              usage_stack[i][n] =
                 IF /\ n \in ChainOf(usage_before, {incrementing.asked}, Cardinality(UsageNames))
                    /\ i = FindUsage(usage_before, n)
                 THEN [usage_before[i][n] EXCEPT !.used = TRUE]
                 ELSE usage_before[i][n]

\* C29: increment_usage(name) terminates for every content of the usage
\* stack; it marks the innermost entry of name and, along the chain of private
\* constructors of differently named types, the entries of those types, and
\* changes nothing else.
C29_IncrementUsageTerminates ==
    /\ [](incrementing.asked # "" => MarkedChain)
    /\ (incrementing.pc = "while") ~> (incrementing.pc = "returned")

(***************************************************************************)
(* Specifications.                                                         *)
(***************************************************************************)
UnifyIdle ==
    /\ heap = <<>>
    /\ ops = 0
    /\ last = NoCall

InitUnify ==
    UnifyInit /\ ExhIdle /\ ZigIdle /\ AirIdle /\ ScopeIdle /\ PatternIdle /\ TxIdle /\ ApplyIdle /\ EncoderIdle /\ GeneraliseIdle /\ RegisterIdle /\ MachineIdle /\ FieldsIdle /\ ValueIdle /\ PipeIdle /\ IdGeneratorIdle /\ ChainIdle

SpecUnify == InitUnify /\ [][UnifyNext]_vars

InitExh ==
    ExhInit /\ UnifyIdle /\ ZigIdle /\ AirIdle /\ ScopeIdle /\ PatternIdle /\ TxIdle /\ ApplyIdle /\ EncoderIdle /\ GeneraliseIdle /\ RegisterIdle /\ MachineIdle /\ FieldsIdle /\ ValueIdle /\ PipeIdle /\ IdGeneratorIdle /\ ChainIdle

SpecExh == InitExh /\ [][ExhNext]_vars

InitZigZag ==
    ZigInit /\ UnifyIdle /\ ExhIdle /\ AirIdle /\ ScopeIdle /\ PatternIdle /\ TxIdle /\ ApplyIdle /\ EncoderIdle /\ GeneraliseIdle /\ RegisterIdle /\ MachineIdle /\ FieldsIdle /\ ValueIdle /\ PipeIdle /\ IdGeneratorIdle /\ ChainIdle

SpecZigZag == InitZigZag /\ [][ZigNext]_vars

InitAir ==
    AirInit /\ UnifyIdle /\ ExhIdle /\ ZigIdle /\ ScopeIdle /\ PatternIdle /\ TxIdle /\ ApplyIdle /\ EncoderIdle /\ GeneraliseIdle /\ RegisterIdle /\ MachineIdle /\ FieldsIdle /\ ValueIdle /\ PipeIdle /\ IdGeneratorIdle /\ ChainIdle

SpecAir == InitAir /\ [][AirNext]_vars

InitScope ==
    ScopeInit /\ UnifyIdle /\ ExhIdle /\ ZigIdle /\ AirIdle /\ PatternIdle /\ TxIdle /\ ApplyIdle /\ EncoderIdle /\ GeneraliseIdle /\ RegisterIdle /\ MachineIdle /\ FieldsIdle /\ ValueIdle /\ PipeIdle /\ IdGeneratorIdle /\ ChainIdle

SpecScope == InitScope /\ [][ScopeNext]_vars

InitPattern ==
    PatternInit /\ EnvironmentCallsIdle /\ ExhIdle /\ ZigIdle /\ AirIdle /\ TxIdle /\ ApplyIdle /\ EncoderIdle /\ GeneraliseIdle /\ RegisterIdle /\ MachineIdle /\ FieldsIdle /\ ValueIdle /\ PipeIdle /\ IdGeneratorIdle /\ ChainIdle

SpecPattern == InitPattern /\ [][PatternNext]_vars

InitTx ==
    TxInit /\ ExhIdle /\ ZigIdle /\ AirIdle /\ ScopeIdle /\ PatternIdle /\ UnifyIdle /\ ApplyIdle /\ EncoderIdle /\ GeneraliseIdle /\ RegisterIdle /\ MachineIdle /\ FieldsIdle /\ ValueIdle /\ PipeIdle /\ IdGeneratorIdle /\ ChainIdle

SpecTx == InitTx /\ [][TxNext]_vars

InitApply ==
    ApplyInit /\ ExhIdle /\ ZigIdle /\ AirIdle /\ ScopeIdle /\ PatternIdle /\ TxIdle /\ UnifyIdle /\ EncoderIdle /\ GeneraliseIdle /\ RegisterIdle /\ MachineIdle /\ FieldsIdle /\ ValueIdle /\ PipeIdle /\ IdGeneratorIdle /\ ChainIdle

SpecApply == InitApply /\ [][ApplyNext]_vars

InitEncoder ==
    EncoderInit /\ ExhIdle /\ ZigIdle /\ AirIdle /\ ScopeIdle /\ PatternIdle /\ TxIdle /\ ApplyIdle /\ UnifyIdle /\ GeneraliseIdle /\ RegisterIdle /\ MachineIdle /\ FieldsIdle /\ ValueIdle /\ PipeIdle /\ IdGeneratorIdle /\ ChainIdle

SpecEncoder == InitEncoder /\ [][EncoderNext]_vars

SpecEncoderCalls == InitEncoder /\ [][EncoderCallsNext]_vars

InitGeneralise ==
    GeneraliseInit /\ ExhIdle /\ ZigIdle /\ AirIdle /\ ScopeIdle /\ PatternIdle /\ TxIdle /\ ApplyIdle /\ EncoderIdle /\ UnifyIdle /\ RegisterIdle /\ MachineIdle /\ FieldsIdle /\ ValueIdle /\ PipeIdle /\ IdGeneratorIdle /\ ChainIdle

SpecGeneralise == InitGeneralise /\ [][GeneraliseNext]_vars

InitRegister ==
    RegisterInit /\ ExhIdle /\ ZigIdle /\ AirIdle /\ ScopeIdle /\ PatternIdle /\ TxIdle /\ ApplyIdle /\ EncoderIdle /\ GeneraliseIdle /\ UnifyIdle /\ MachineIdle /\ FieldsIdle /\ ValueIdle /\ PipeIdle /\ IdGeneratorIdle /\ ChainIdle

SpecRegister == InitRegister /\ [][RegisterNext]_vars

InitMachine ==
    MachineInit /\ ExhIdle /\ ZigIdle /\ AirIdle /\ ScopeIdle /\ PatternIdle /\ TxIdle /\ ApplyIdle /\ EncoderIdle /\ GeneraliseIdle /\ RegisterIdle /\ UnifyIdle /\ FieldsIdle /\ ValueIdle /\ PipeIdle /\ IdGeneratorIdle /\ ChainIdle

SpecMachine == InitMachine /\ [][MachineNext]_vars

InitFields ==
    FieldsInit /\ ExhIdle /\ ZigIdle /\ AirIdle /\ ScopeIdle /\ PatternIdle /\ TxIdle /\ ApplyIdle /\ EncoderIdle /\ GeneraliseIdle /\ RegisterIdle /\ MachineIdle /\ UnifyIdle /\ ValueIdle /\ PipeIdle /\ IdGeneratorIdle /\ ChainIdle

SpecFields == InitFields /\ [][FieldsNext]_vars

InitValue ==
    ValueInit /\ ExhIdle /\ ZigIdle /\ AirIdle /\ ScopeIdle /\ PatternIdle /\ TxIdle /\ ApplyIdle /\ EncoderIdle /\ GeneraliseIdle /\ RegisterIdle /\ MachineIdle /\ FieldsIdle /\ UnifyIdle /\ PipeIdle /\ IdGeneratorIdle /\ ChainIdle

SpecValue == InitValue /\ [][ValueNext]_vars

InitPipe ==
    PipeInit /\ ExhIdle /\ ZigIdle /\ AirIdle /\ ScopeIdle /\ PatternIdle /\ TxIdle /\ ApplyIdle /\ EncoderIdle /\ GeneraliseIdle /\ RegisterIdle /\ MachineIdle /\ FieldsIdle /\ ValueIdle /\ UnifyIdle /\ IdGeneratorIdle /\ ChainIdle

SpecPipe == InitPipe /\ [][PipeNext]_vars

InitIdGenerator ==
    IdGeneratorInit /\ ExhIdle /\ ZigIdle /\ AirIdle /\ ScopeIdle /\ PatternIdle /\ TxIdle /\ ApplyIdle /\ EncoderIdle /\ GeneraliseIdle /\ RegisterIdle /\ MachineIdle /\ FieldsIdle /\ ValueIdle /\ PipeIdle /\ UnifyIdle /\ ChainIdle

SpecIdGenerator == InitIdGenerator /\ [][IdGeneratorNext]_vars

InitChain ==
    ChainInit /\ ExhIdle /\ ZigIdle /\ AirIdle /\ ScopeIdle /\ PatternIdle /\ TxIdle /\ ApplyIdle /\ EncoderIdle /\ GeneraliseIdle /\ RegisterIdle /\ MachineIdle /\ FieldsIdle /\ ValueIdle /\ PipeIdle /\ IdGeneratorIdle /\ UnifyIdle

\* The loop runs on as long as it can: no turn of it waits for anything.
SpecChain == InitChain /\ [][ChainNext]_vars /\ WF_vars(WhileLetSome)

====
